---- MODULE Spec2Model ----
(***************************************************************************)
(* The autonomous content generation pipeline of the LARK Labs AI          *)
(* influencer backend: AutonomousContentGenerator.generateDailyContent     *)
(* (backend/src/content/generator.js), the persona engine it calls         *)
(* (backend/src/ai/character.js) and the job handlers that start runs      *)
(* (backend/src/services/scheduler.js).                                    *)
(*                                                                         *)
(* A run is one invocation of a job handler.  Node runs the handlers on    *)
(* one thread, so the code between two awaits is one atomic step;          *)
(* run[r].pc names the await a run is suspended on.  External calls (the   *)
(* generative service, voice synthesis, the database) answer with any      *)
(* outcome they can produce: a value drawn from a small sample set, or a   *)
(* failure.  database.create / database.update (connection.js) either      *)
(* return the row or throw; the store behind them is an external           *)
(* collaborator and applies no rule of its own here.                       *)
(***************************************************************************)
EXTENDS Integers, Sequences, FiniteSets, TLC

(* ------------------------------ bounds -------------------------------- *)

\* Handler invocations that may be in flight at once (node-cron starts a
\* handler at every tick whether or not the previous one has finished).
MaxRuns == 2

\* Calendar days the clock runs through.
MaxDay == 2

\* settings.daily_content_limit: parseInt(process.env.DAILY_CONTENT_LIMIT) || 3.
\* A deployment parameter; kept small so that the quota is reached.
daily_content_limit == 1

(* ------------------------- program constants -------------------------- *)

\* character.js: this.consistencyThreshold
consistencyThreshold == 95

\* character.js evaluateConsistency: score when the evaluation has no JSON
DefaultScoreNoJson == 75

\* character.js evaluateConsistency: score when the call or JSON.parse throws
DefaultScoreOnError == 70

\* generator.js performQualityCheck: overall_score of the conservative default
DefaultQualityScore == 75

Runs == 1..MaxRuns

\* schema.sql: content_calendar.status CHECK
SchemaStatuses == {"planned", "generating", "reviewing", "ready", "published", "failed"}

\* The ContentItem status set of the data model.
ContentItemStatuses == SchemaStatuses \cup {"cancelled"}

JobNames == {"daily_content", "research_updates"}

(* ------------------------------ state --------------------------------- *)

VARIABLES
  day,                \* the calendar day of new Date() / NOW()
  settings,           \* generator.settings, read from the environment at construction
  content_calendar,   \* rows of table content_calendar, in insertion order
  personality_consistency_score,  \* character_profile.personality_consistency_score
  run,                \* per handler invocation: its position and its locals
  call                \* one stage call followed query by query: its position and locals

vars == << day, settings, content_calendar, personality_consistency_score, run, call >>

(* --------------------------- value shapes ----------------------------- *)

\* contentResult of generateDailyContent (generator.js 85)
NoContent == [defined |-> FALSE, consistency_score |-> 0, meets_threshold |-> FALSE]

\* qualityCheck of generateDailyContent (generator.js 88).  The eight criteria
\* are kept as technical_accuracy, character_consistency and the lowest of
\* the other six.
NoQuality == [defined |-> FALSE, parsed |-> FALSE, approved |-> FALSE,
              manual_review_required |-> FALSE,
              overall_score |-> 0, technical_accuracy |-> 0,
              character_consistency |-> 0, lowest_other |-> 0]

\* How generateDailyContent settled: not called, pending, resolved, rejected.
NoOutcome == [state |-> "none", success |-> FALSE, reason |-> "",
              content |-> 0, publish_result |-> "null"]

Pending == [NoOutcome EXCEPT !.state = "pending"]

Rejected(msg) == [NoOutcome EXCEPT !.state = "rejected", !.reason = msg]

\* generator.js 64-69: the structured refusal
LimitResult == [NoOutcome EXCEPT !.state = "resolved", !.success = FALSE,
                                 !.reason = "Daily content limit reached"]

\* generator.js 125-134: the structured success
SuccessResult(id, pub) == [NoOutcome EXCEPT !.state = "resolved", !.success = TRUE,
                                            !.content = id, !.publish_result = pub]

\* No stage call is being followed.
NoCall == [pc |-> "none"]

\* A handler invocation that has not started.
IdleRun == [pc |-> "idle", job |-> "none", trendingResearch |-> "none",
            contentResult |-> NoContent, qualityCheck |-> NoQuality,
            savedContent |-> 0, outcome |-> NoOutcome, handlerResult |-> "none"]

(* ---------------------- the generative service ------------------------ *)

\* Consistency evaluations the service may send back: the overall_score of a
\* parsed JSON answer, an answer without JSON, or a failed call.
ConsistencyResponses ==
  { [kind |-> "json", overall_score |-> 92],
    [kind |-> "json", overall_score |-> 95],
    [kind |-> "nojson", overall_score |-> 0],
    [kind |-> "error", overall_score |-> 0] }

\* A quality review as the service words it: the criterion scores, the
\* overall score and the approved flag the service chose to write.
Review(tech, char, other, ok) ==
  [NoQuality EXCEPT !.defined = TRUE, !.parsed = TRUE, !.approved = ok,
                    !.overall_score = (tech + char + other) \div 3,
                    !.technical_accuracy = tech,
                    !.character_consistency = char,
                    !.lowest_other = other]

QualityResponses ==
  { [kind |-> "json", body |-> Review(92, 90, 84, TRUE)],
    [kind |-> "json", body |-> Review(92, 90, 84, FALSE)],
    [kind |-> "nojson", body |-> NoQuality],
    [kind |-> "error", body |-> NoQuality] }

\* urgency_level of a researchTopic answer
UrgencyLevels == {"medium", "high", "emergency"}

(* ------------------------- decisions of the code ---------------------- *)

\* generator.js checkDailyLimits: COUNT(*) of the rows created today whose
\* status is NOT IN ('cancelled', 'failed')
checkDailyLimits(rows, today) ==
  Cardinality({ i \in DOMAIN rows :
                  /\ rows[i].created_at = today
                  /\ rows[i].status \notin {"cancelled", "failed"} })

\* The comparison written with > for >=.
LimitReachedOffByOne(count) == count > daily_content_limit

\* generator.js 63 and scheduler.js 183: count >= daily_content_limit
LimitReached(count) == count >= daily_content_limit

\* scheduler.js 248: urgency_level === 'emergency' || === 'high'
IsUrgent(level) == level = "emergency" \/ level = "high"

\* generator.js 92: options.generate_audio !== false.  The daily handler passes
\* generate_audio: true, the research handler passes no generate_audio.
WantsAudio(j) ==
  LET generate_audio == IF j = "daily_content" THEN "true" ELSE "undefined"
  IN generate_audio # "false"

\* character.js 146: consistencyScore >= this.consistencyThreshold
MeetsThreshold(score) == score >= consistencyThreshold

\* character.js evaluateConsistency 257-280: the score it returns
evaluateConsistency(resp) ==
  CASE resp.kind = "json"   -> resp.overall_score
    [] resp.kind = "nojson" -> DefaultScoreNoJson
    [] OTHER                -> DefaultScoreOnError

\* character.js 141-147 and generator.js generateContent 415-421
GeneratedContent(score) ==
  [defined |-> TRUE, consistency_score |-> score,
   meets_threshold |-> MeetsThreshold(score)]

\* performQualityCheck with a default that approves whatever the setting says.
performQualityCheckLenient(resp, st) ==
  IF resp.kind = "json"
  THEN resp.body
  ELSE [NoQuality EXCEPT !.defined = TRUE,
                         !.overall_score = DefaultQualityScore,
                         !.approved = TRUE,
                         !.manual_review_required = TRUE]

\* generator.js performQualityCheck 468-496: the parsed JSON as the service
\* wrote it, or the conservative default
performQualityCheck(resp, st) ==
  IF resp.kind = "json"
  THEN resp.body
  ELSE [NoQuality EXCEPT !.defined = TRUE,
                         !.overall_score = DefaultQualityScore,
                         !.approved = ~st.technical_review_required,
                         !.manual_review_required = TRUE]

\* generator.js saveGeneratedContent 579
SavedStatus(qc) == IF qc.approved THEN "ready" ELSE "review_required"

\* Publication decided on the setting alone.
ShouldAutoPublishUnapproved(st, qc) == st.auto_publish_enabled

\* Publication decided on the approval alone.
ShouldAutoPublishUnconfigured(st, qc) == qc.approved

\* generator.js 111
ShouldAutoPublish(st, qc) == st.auto_publish_enabled /\ qc.approved

\* generator.js saveGeneratedContent 574-589: the columns of the new row that
\* any decision of the program reads (created_at is not passed: the column
\* defaults to NOW()).
NewRow(today, qc) ==
  [created_at |-> today, status |-> SavedStatus(qc)]

\* A handler that lets the rejection of generateDailyContent escape instead
\* of catching it.
HandlerReturnRethrows(j, o) ==
  IF o.state = "rejected" THEN "rejected" ELSE "undefined"

\* scheduler.js 197-216 and 255-270: how the handler ends once
\* generateDailyContent has settled.  The daily handler logs a success and
\* falls off the end, or throws inside its try and catches at 213; the
\* research handler ignores the result and catches a rejection at 267.  Either
\* way the handler's promise resolves, with no value.
HandlerReturn(j, o) == "undefined"

\* generateDailyContent settles with o and the handler that awaited it ends;
\* the locals of the call are gone.
Settled(rr, o) ==
  [rr EXCEPT !.pc = "done", !.outcome = o,
             !.handlerResult = HandlerReturn(rr.job, o),
             !.contentResult = NoContent, !.qualityCheck = NoQuality,
             !.trendingResearch = "none"]

\* The handler ends without having called generateDailyContent.
HandlerEnded(rr) ==
  [rr EXCEPT !.pc = "done", !.handlerResult = "undefined",
             !.trendingResearch = "none"]

\* generator.js 51-62: the call of generateDailyContent up to its first await
EnterGeneration(rr, st) ==
  IF ~st.content_generation_enabled
  THEN Settled(rr, Rejected("Autonomous content generation is disabled"))
  ELSE [rr EXCEPT !.pc = "checkDailyLimits", !.outcome = Pending,
                  !.trendingResearch = "none"]

At(rr, stage) == [rr EXCEPT !.pc = stage]

(* ------------------------------- Init --------------------------------- *)

Settings ==
  [content_generation_enabled : BOOLEAN,
   auto_publish_enabled : BOOLEAN,
   technical_review_required : BOOLEAN]

Init ==
  /\ day = 1
  /\ settings \in Settings
  /\ content_calendar = << >>
  /\ personality_consistency_score = 0
  /\ run = [r \in Runs |-> IdleRun]
  /\ call = NoCall

(* --------------------------- job handlers ----------------------------- *)

StartHandler(r, j) ==
  /\ run[r].pc = "idle"
  /\ run' = [run EXCEPT ![r] =
               [IdleRun EXCEPT !.job = j, !.handlerResult = "pending",
                               !.pc = IF j = "daily_content"
                                      THEN "handler_checkDailyLimits"
                                      ELSE "handler_researchTopic"]]
  /\ UNCHANGED << call, day, settings, content_calendar, personality_consistency_score >>

\* scheduler.js 79-103: a cron tick of daily_content or research_updates
CronTick(r, j) == StartHandler(r, j)

\* scheduler.js triggerJob 560-579: the handler is run at once and awaited
triggerJob(r, j) == StartHandler(r, j)

\* The daily handler without its own quota check.
handleDailyContentGenerationUnguarded(r) ==
  /\ run[r].pc = "handler_checkDailyLimits"
  /\ \/ run' = [run EXCEPT ![r] = HandlerEnded(run[r])]
     \/ run' = [run EXCEPT ![r] = EnterGeneration(run[r], settings)]
  /\ UNCHANGED << call, day, settings, content_calendar, personality_consistency_score >>

\* scheduler.js 181-195: the handler's own quota check answered
handleDailyContentGeneration(r) ==
  /\ run[r].pc = "handler_checkDailyLimits"
  /\ \/ run' = [run EXCEPT ![r] = HandlerEnded(run[r])]    \* the query threw: 213
     \/ run' = [run EXCEPT ![r] =
                  IF LimitReached(checkDailyLimits(content_calendar, day))
                  THEN HandlerEnded(run[r])                \* return at 188
                  ELSE EnterGeneration(run[r], settings)]
  /\ UNCHANGED << call, day, settings, content_calendar, personality_consistency_score >>

\* scheduler.js 227-245: researchTopic answered; the row for research_data is
\* being inserted
handleResearchUpdates(r) ==
  /\ run[r].pc = "handler_researchTopic"
  /\ \/ run' = [run EXCEPT ![r] = HandlerEnded(run[r])]    \* it threw: 267
     \/ \E level \in UrgencyLevels :
          run' = [run EXCEPT ![r] = [run[r] EXCEPT !.pc = "handler_storeResearch",
                                                   !.trendingResearch = level]]
  /\ UNCHANGED << call, day, settings, content_calendar, personality_consistency_score >>

\* scheduler.js 247-265: the insert answered; an urgent result starts a run
handleUrgentResearch(r) ==
  /\ run[r].pc = "handler_storeResearch"
  /\ \/ run' = [run EXCEPT ![r] = HandlerEnded(run[r])]    \* it threw: 267
     \/ run' = [run EXCEPT ![r] =
                  IF IsUrgent(run[r].trendingResearch)
                  THEN EnterGeneration(run[r], settings)
                  ELSE HandlerEnded(run[r])]
  /\ UNCHANGED << call, day, settings, content_calendar, personality_consistency_score >>

(* ----------------------- generateDailyContent ------------------------- *)

\* Stages of a run that has passed its quota check and not yet persisted.
BetweenCheckAndPersist ==
  { "planDailyContent", "conductResearch", "selectOptimalTopic",
    "gatherKnowledgeContext", "generateHVACScript", "evaluateConsistency",
    "updateConsistencyMetrics", "performQualityCheck", "generateVoiceAudio",
    "generateSocialContent", "saveGeneratedContent" }

\* generateDailyContent with the refusal logged and not returned.
generateDailyContentFallsThrough(r) ==
  /\ run[r].pc = "checkDailyLimits"
  /\ \/ run' = [run EXCEPT ![r] = Settled(run[r], Rejected("query failed"))]
     \/ run' = [run EXCEPT ![r] = At(run[r], "planDailyContent")]
  /\ UNCHANGED << call, day, settings, content_calendar, personality_consistency_score >>

\* generateDailyContent behind a run-level lock: the quota check lets a run
\* through only while no other run is between its check and its insert.
generateDailyContentSingleFlight(r) ==
  /\ run[r].pc = "checkDailyLimits"
  /\ \/ run' = [run EXCEPT ![r] = Settled(run[r], Rejected("query failed"))]
     \/ run' = [run EXCEPT ![r] =
                  IF \/ LimitReached(checkDailyLimits(content_calendar, day))
                     \/ \E o \in Runs \ {r} : run[o].pc \in BetweenCheckAndPersist
                  THEN Settled(run[r], LimitResult)
                  ELSE At(run[r], "planDailyContent")]
  /\ UNCHANGED << call, day, settings, content_calendar, personality_consistency_score >>

\* generator.js 62-73 and planDailyContent 175-194: the quota check answered;
\* below the limit the day is planned and the query for the recent topics is
\* issued
generateDailyContent(r) ==
  /\ run[r].pc = "checkDailyLimits"
  /\ \/ run' = [run EXCEPT ![r] = Settled(run[r], Rejected("query failed"))]
     \/ run' = [run EXCEPT ![r] =
                  IF LimitReached(checkDailyLimits(content_calendar, day))
                  THEN Settled(run[r], LimitResult)
                  ELSE At(run[r], "planDailyContent")]
  /\ UNCHANGED << call, day, settings, content_calendar, personality_consistency_score >>

\* generator.js planDailyContent 194-204: getRecentTopics answered
planDailyContent(r) ==
  /\ run[r].pc = "planDailyContent"
  /\ \/ run' = [run EXCEPT ![r] = Settled(run[r], Rejected("query failed"))]
     \/ run' = [run EXCEPT ![r] = At(run[r], "conductResearch")]
  /\ UNCHANGED << call, day, settings, content_calendar, personality_consistency_score >>

\* How selectOptimalTopic leaves its synchronous part (269-307), given what
\* conductResearch returned: the topic is settled at once (an urgent topic, or
\* the fallback list when no result has content angles), the service is asked
\* to choose among the angles, or building the prompt raises a TypeError
\* (content_angles of a result is not a list).
TopicPaths == {"settled", "asksService", "raises"}

\* generator.js conductResearch 210-264, which never fails the run, then
\* selectOptimalTopic 269-358 up to its await.
conductResearch(r) ==
  /\ run[r].pc = "conductResearch"
  /\ \E path \in TopicPaths :
       run' = [run EXCEPT ![r] =
         CASE path = "settled"     -> At(run[r], "gatherKnowledgeContext")
           [] path = "asksService" -> At(run[r], "selectOptimalTopic")
           [] OTHER                -> Settled(run[r], Rejected("TypeError"))]
  /\ UNCHANGED << call, day, settings, content_calendar, personality_consistency_score >>

\* generator.js selectOptimalTopic 308-321: the choice answered or failed
selectOptimalTopic(r) ==
  /\ run[r].pc = "selectOptimalTopic"
  /\ run' = [run EXCEPT ![r] = At(run[r], "gatherKnowledgeContext")]
  /\ UNCHANGED << call, day, settings, content_calendar, personality_consistency_score >>

\* generator.js gatherKnowledgeContext 363-388: knowledge or the empty sets
gatherKnowledgeContext(r) ==
  /\ run[r].pc = "gatherKnowledgeContext"
  /\ run' = [run EXCEPT ![r] = At(run[r], "generateHVACScript")]
  /\ UNCHANGED << call, day, settings, content_calendar, personality_consistency_score >>

\* generateConsistentContent with a failed script call swallowed: the run goes
\* on to the quality gate without a script.
generateConsistentContentSwallows(r) ==
  /\ run[r].pc = "generateHVACScript"
  /\ \/ run' = [run EXCEPT ![r] =
                  [run[r] EXCEPT !.pc = "performQualityCheck",
                                 !.contentResult = GeneratedContent(DefaultScoreOnError)]]
     \/ run' = [run EXCEPT ![r] = At(run[r], "evaluateConsistency")]
  /\ UNCHANGED << call, day, settings, content_calendar, personality_consistency_score >>

\* generateConsistentContent with a failure recorded as a row of the calendar.
generateConsistentContentStoresFailure(r) ==
  /\ run[r].pc = "generateHVACScript"
  /\ \/ /\ run' = [run EXCEPT ![r] =
                     Settled(run[r], Rejected("Content generation failed"))]
        /\ content_calendar' =
             Append(content_calendar, [created_at |-> day, status |-> "failed"])
     \/ /\ run' = [run EXCEPT ![r] = At(run[r], "evaluateConsistency")]
        /\ UNCHANGED content_calendar
  /\ UNCHANGED << call, day, settings, personality_consistency_score >>

\* character.js generateConsistentContent 126, 159-165: the script call
\* answered (the evaluation is issued) or threw (rethrown to the caller)
generateConsistentContent(r) ==
  /\ run[r].pc = "generateHVACScript"
  /\ \/ run' = [run EXCEPT ![r] =
                  Settled(run[r], Rejected("Content generation failed"))]
     \/ run' = [run EXCEPT ![r] = At(run[r], "evaluateConsistency")]
  /\ UNCHANGED << call, day, settings, content_calendar, personality_consistency_score >>

\* character.js evaluateConsistency 257-280.  A parsed answer goes on to
\* updateConsistencyMetrics, holding scores.overall_score in
\* contentResult.consistency_score; the defaults return at once, and
\* generateContent 408-421 hands the result to performQualityCheck.
EvaluationAnswers(r) ==
  /\ run[r].pc = "evaluateConsistency"
  /\ \E resp \in ConsistencyResponses :
       run' = [run EXCEPT ![r] =
         IF resp.kind = "json"
         THEN [run[r] EXCEPT
                 !.pc = "updateConsistencyMetrics",
                 !.contentResult = [NoContent EXCEPT
                     !.consistency_score = evaluateConsistency(resp)]]
         ELSE [run[r] EXCEPT
                 !.pc = "performQualityCheck",
                 !.contentResult = GeneratedContent(evaluateConsistency(resp))]]
  /\ UNCHANGED << call, day, settings, content_calendar, personality_consistency_score >>

\* character.js updateConsistencyMetrics 285-300: the profile row is updated,
\* or the update threw and was logged
updateConsistencyMetrics(r) ==
  /\ run[r].pc = "updateConsistencyMetrics"
  /\ \/ personality_consistency_score' = run[r].contentResult.consistency_score
     \/ UNCHANGED personality_consistency_score
  /\ run' = [run EXCEPT ![r] =
       [run[r] EXCEPT
          !.pc = "performQualityCheck",
          !.contentResult = GeneratedContent(run[r].contentResult.consistency_score)]]
  /\ UNCHANGED << call, day, settings, content_calendar >>

\* The review answered and the audio is left out whatever the caller passed.
QualityCheckAnswersSkipsAudio(r) ==
  /\ run[r].pc = "performQualityCheck"
  /\ \E resp \in QualityResponses :
       run' = [run EXCEPT ![r] =
         [run[r] EXCEPT
            !.qualityCheck = performQualityCheck(resp, settings),
            !.pc = "generateSocialContent"]]
  /\ UNCHANGED << call, day, settings, content_calendar, personality_consistency_score >>

\* generator.js 88-97: the review answered; audio is asked for unless the
\* caller passed generate_audio: false
QualityCheckAnswers(r) ==
  /\ run[r].pc = "performQualityCheck"
  /\ \E resp \in QualityResponses :
       run' = [run EXCEPT ![r] =
         [run[r] EXCEPT
            !.qualityCheck = performQualityCheck(resp, settings),
            !.pc = IF WantsAudio(run[r].job) THEN "generateVoiceAudio"
                                             ELSE "generateSocialContent"]]
  /\ UNCHANGED << call, day, settings, content_calendar, personality_consistency_score >>

\* generator.js generateVoiceAudio 502-524: audio, or null after a failure
generateVoiceAudio(r) ==
  /\ run[r].pc = "generateVoiceAudio"
  /\ run' = [run EXCEPT ![r] = At(run[r], "generateSocialContent")]
  /\ UNCHANGED << call, day, settings, content_calendar, personality_consistency_score >>

\* generator.js generateSocialContent 548-569, then 100: the insert is issued
generateSocialContent(r) ==
  /\ run[r].pc = "generateSocialContent"
  /\ run' = [run EXCEPT ![r] = At(run[r], "saveGeneratedContent")]
  /\ UNCHANGED << call, day, settings, content_calendar, personality_consistency_score >>

\* saveGeneratedContent with a failed insert swallowed: the run goes on to
\* publish an item that was never created.
saveGeneratedContentSwallows(r) ==
  /\ run[r].pc = "saveGeneratedContent"
  /\ \/ /\ run' = [run EXCEPT ![r] =
                     IF ShouldAutoPublish(settings, run[r].qualityCheck)
                     THEN At(run[r], "autoPublishContent")
                     ELSE Settled(run[r], SuccessResult(0, "null"))]
        /\ UNCHANGED content_calendar
     \/ LET id == Len(content_calendar) + 1 IN
        /\ content_calendar' =
             Append(content_calendar, NewRow(day, run[r].qualityCheck))
        /\ run' = [run EXCEPT ![r] =
             IF ShouldAutoPublish(settings, run[r].qualityCheck)
             THEN [run[r] EXCEPT !.pc = "autoPublishContent", !.savedContent = id]
             ELSE Settled([run[r] EXCEPT !.savedContent = id],
                          SuccessResult(id, "null"))]
  /\ UNCHANGED << call, day, settings, personality_consistency_score >>

\* generator.js saveGeneratedContent 574-595 and 109-134: the insert answered
saveGeneratedContent(r) ==
  /\ run[r].pc = "saveGeneratedContent"
  /\ \/ /\ run' = [run EXCEPT ![r] = Settled(run[r], Rejected("insert failed"))]
        /\ UNCHANGED content_calendar
     \/ LET id == Len(content_calendar) + 1 IN
        /\ content_calendar' =
             Append(content_calendar,
                    NewRow(day, run[r].qualityCheck))
        /\ run' = [run EXCEPT ![r] =
             IF ShouldAutoPublish(settings, run[r].qualityCheck)
             THEN [run[r] EXCEPT !.pc = "autoPublishContent", !.savedContent = id]
             ELSE Settled([run[r] EXCEPT !.savedContent = id],
                          SuccessResult(id, "null"))]
  /\ UNCHANGED << call, day, settings, personality_consistency_score >>

\* autoPublishContent with the failed update rethrown to the run.
autoPublishContentRethrows(r) ==
  /\ run[r].pc = "autoPublishContent"
  /\ \/ /\ content_calendar' = [content_calendar EXCEPT
                                  ![run[r].savedContent].status = "published"]
        /\ run' = [run EXCEPT ![r] =
             Settled(run[r], SuccessResult(run[r].savedContent, "published"))]
     \/ /\ UNCHANGED content_calendar
        /\ run' = [run EXCEPT ![r] = Settled(run[r], Rejected("update failed"))]
  /\ UNCHANGED << call, day, settings, personality_consistency_score >>

\* generator.js autoPublishContent 605-629: the status update answered
autoPublishContent(r) ==
  /\ run[r].pc = "autoPublishContent"
  /\ \/ /\ content_calendar' = [content_calendar EXCEPT
                                  ![run[r].savedContent].status = "published"]
        /\ run' = [run EXCEPT ![r] =
             Settled(run[r], SuccessResult(run[r].savedContent, "published"))]
     \/ /\ UNCHANGED content_calendar
        /\ run' = [run EXCEPT ![r] =
             Settled(run[r], SuccessResult(run[r].savedContent, "failed"))]
  /\ UNCHANGED << call, day, settings, personality_consistency_score >>

\* The handler's invocation is over.
HandlerDone(r) ==
  /\ run[r].pc = "done"
  /\ run' = [run EXCEPT ![r] = IdleRun]
  /\ UNCHANGED << call, day, settings, content_calendar, personality_consistency_score >>

\* Midnight.
NextDay ==
  /\ day < MaxDay
  /\ day' = day + 1
  /\ UNCHANGED << call, settings, content_calendar, personality_consistency_score, run >>

Next ==
  \/ \E r \in Runs, j \in JobNames : CronTick(r, j)
  \/ \E r \in Runs, j \in JobNames : triggerJob(r, j)
  \/ \E r \in Runs : handleDailyContentGeneration(r)
  \/ \E r \in Runs : handleResearchUpdates(r)
  \/ \E r \in Runs : handleUrgentResearch(r)
  \/ \E r \in Runs : generateDailyContent(r)
  \/ \E r \in Runs : planDailyContent(r)
  \/ \E r \in Runs : conductResearch(r)
  \/ \E r \in Runs : selectOptimalTopic(r)
  \/ \E r \in Runs : gatherKnowledgeContext(r)
  \/ \E r \in Runs : generateConsistentContent(r)
  \/ \E r \in Runs : EvaluationAnswers(r)
  \/ \E r \in Runs : updateConsistencyMetrics(r)
  \/ \E r \in Runs : QualityCheckAnswers(r)
  \/ \E r \in Runs : generateVoiceAudio(r)
  \/ \E r \in Runs : generateSocialContent(r)
  \/ \E r \in Runs : saveGeneratedContent(r)
  \/ \E r \in Runs : autoPublishContent(r)
  \/ \E r \in Runs : HandlerDone(r)
  \/ NextDay

Spec == Init /\ [][Next]_vars

(* ============================== claims ================================ *)

Days == 1..MaxDay

\* Stages PLANNING through SOCIAL_ADAPTATION of a run.
BeforePersisted == BetweenCheckAndPersist \ {"saveGeneratedContent"}

\* Run r makes the step it is suspended on.
Steps(r) == run'[r] # run[r]

\* C1 (as claimed): on every day, the items created that day with a status
\* outside {cancelled, failed} number at most the daily content limit, under
\* any interleaving of runs.
C1_QuotaNeverExceeded ==
  \A d \in Days : checkDailyLimits(content_calendar, d) <= daily_content_limit

\* C1 (amended): with at most MaxRuns runs in flight at once, the items
\* created on one day with a status outside {cancelled, failed} number at
\* most the daily content limit plus MaxRuns - 1: every run that overlaps the
\* one that fills the quota may add one item more.
C1_QuotaOvershootBounded ==
  \A d \in Days :
    checkDailyLimits(content_calendar, d) <= daily_content_limit + MaxRuns - 1

\* The quota of a day is overrun by as much as the runs in flight allow.
C1_Witness ==
  \E d \in Days :
    checkDailyLimits(content_calendar, d) = daily_content_limit + MaxRuns - 1

\* C2: the quota check and the creation of the item are not atomic and no
\* run-level lock stands between them: a run suspended on its quota check
\* while the day's count is below the limit can pass the check whatever the
\* other runs are doing, also while another run has passed the check and has
\* not yet persisted.
C2_NoRunLevelLock ==
  \A r \in Runs :
    (/\ run[r].pc = "checkDailyLimits"
     /\ checkDailyLimits(content_calendar, day) < daily_content_limit)
    => ENABLED (generateDailyContent(r) /\ run'[r].pc = "planDailyContent")

\* Two runs have each created an item on the same day although the limit
\* leaves room for one of them only: both passed the check before either
\* persisted.
C2_Witness ==
  \E r1, r2 \in Runs :
    /\ r1 # r2
    /\ run[r1].outcome.success /\ run[r2].outcome.success
    /\ run[r1].outcome.content # run[r2].outcome.content
    /\ LET a == content_calendar[run[r1].outcome.content]
           b == content_calendar[run[r2].outcome.content]
       IN /\ a.created_at = b.created_at
          /\ checkDailyLimits(content_calendar, a.created_at)
               = daily_content_limit + 1

\* C3: a run whose quota check finds the day's count at or above the limit
\* ends in that step, with the refusal {success: false, reason: 'Daily
\* content limit reached'} (or with the error of a failed count query); it
\* reaches no later stage and nothing in the store changes.
C3_LimitShortCircuit ==
  [][\A r \in Runs :
       (/\ run[r].pc = "checkDailyLimits"
        /\ checkDailyLimits(content_calendar, day) >= daily_content_limit
        /\ Steps(r))
       => /\ run'[r].pc = "done"
          /\ run'[r].outcome \in {LimitResult, Rejected("query failed")}
          /\ run'[r].savedContent = 0
          /\ UNCHANGED << content_calendar, personality_consistency_score >>]_vars

\* A run has been refused on the quota.
C3_Witness ==
  \E r \in Runs :
    /\ run[r].pc = "done"
    /\ run[r].outcome = LimitResult
    /\ checkDailyLimits(content_calendar, day) >= daily_content_limit

\* C4 (as claimed): an item is set to published only if its generation met
\* the persona-consistency threshold and the quality gate approved it.
C4_PublishedImpliesBothChecks ==
  [][\A r \in Runs :
       (/\ run[r].pc = "autoPublishContent"
        /\ Steps(r)
        /\ content_calendar' # content_calendar)
       => /\ run[r].contentResult.meets_threshold
          /\ run[r].qualityCheck.approved]_vars

\* C4 (amended): an item is set to published only if the quality gate
\* approved its generation and auto-publish is enabled; meets_threshold is
\* advisory and is not required.
C4_PublishedImpliesApproved ==
  [][\A r \in Runs :
       (/\ run[r].pc = "autoPublishContent"
        /\ Steps(r)
        /\ content_calendar' # content_calendar)
       => /\ run[r].qualityCheck.approved
          /\ settings.auto_publish_enabled
          /\ content_calendar'[run[r].savedContent].status = "published"]_vars

\* The one item of the calendar has been published by a run that was alone,
\* and the consistency score its evaluation wrote to the profile is below the
\* threshold.
C4_Witness ==
  \E r \in Runs :
    /\ run[r].pc = "done"
    /\ \A o \in Runs \ {r} : run[o].pc = "idle"
    /\ run[r].outcome.publish_result = "published"
    /\ Len(content_calendar) = 1
    /\ content_calendar[run[r].outcome.content].status = "published"
    /\ personality_consistency_score < consistencyThreshold
    /\ personality_consistency_score > 0

\* C5: the row created at PERSISTED has status ready if the quality gate
\* approved and reviewing otherwise, and the status is one of the ContentItem
\* statuses.
C5_PersistedStatus ==
  [][\A r \in Runs :
       (/\ run[r].pc = "saveGeneratedContent"
        /\ Steps(r)
        /\ content_calendar' # content_calendar)
       => LET row == content_calendar'[Len(content_calendar')]
          IN /\ row.status = IF run[r].qualityCheck.approved
                             THEN "ready" ELSE "reviewing"
             /\ row.status \in ContentItemStatuses]_vars

\* C6: a run is in AUTO_PUBLISH only if the auto-publish setting is enabled
\* and the item it persisted has status ready; never for an item persisted
\* for review.
C6_AutoPublishOnlyReady ==
  \A r \in Runs :
    run[r].pc = "autoPublishContent"
    => /\ settings.auto_publish_enabled
       /\ run[r].savedContent \in DOMAIN content_calendar
       /\ content_calendar[run[r].savedContent].status = "ready"

\* A run is publishing the ready item it persisted.
C6_Witness ==
  \E r \in Runs :
    /\ run[r].pc = "autoPublishContent"
    /\ content_calendar[run[r].savedContent].status = "ready"
    /\ settings.auto_publish_enabled

\* C7: whenever the quality gate yields approved = true, the reviewed scores
\* satisfy the approval rule.  The rule is taken in its weakest reading
\* (content not safety-related): technical_accuracy >= 85,
\* character_consistency >= 85 and every criterion >= 70.
C7_ApprovedImpliesRule ==
  \A r \in Runs :
    (run[r].qualityCheck.defined /\ run[r].qualityCheck.approved)
    => /\ run[r].qualityCheck.technical_accuracy >= 85
       /\ run[r].qualityCheck.character_consistency >= 85
       /\ run[r].qualityCheck.lowest_other >= 70

\* C8 (as claimed): generateDailyContent never rejects: every call resolves
\* with a structured result.
C8_NeverRejects ==
  \A r \in Runs : run[r].outcome.state # "rejected"

\* C8 (amended): generateDailyContent resolves with the success result or
\* with the quota refusal {success: false, reason}; when generation is
\* disabled or a stage fails with no fallback it rejects with the error.  The
\* job handler that called it catches the rejection, so the handler's own
\* promise always resolves.
C8_ResolvesOrRejectsToHandler ==
  \A r \in Runs :
    run[r].pc = "done"
    => /\ run[r].handlerResult = "undefined"
       /\ run[r].outcome.state \in {"none", "resolved", "rejected"}
       /\ (run[r].outcome.state = "resolved" /\ ~run[r].outcome.success
             => run[r].outcome = LimitResult)
       /\ (run[r].outcome.state = "resolved" /\ run[r].outcome.success
             => run[r].outcome.content \in DOMAIN content_calendar)
       /\ (run[r].outcome.state # "none" /\ ~settings.content_generation_enabled
             => run[r].outcome =
                  Rejected("Autonomous content generation is disabled"))

\* A call of generateDailyContent has rejected and its handler has ended
\* normally.
C8_Witness ==
  \E r \in Runs :
    /\ run[r].pc = "done"
    /\ run[r].outcome.state = "rejected"
    /\ run[r].handlerResult = "undefined"

\* C9 (as claimed): no step of a run in PLANNING through SOCIAL_ADAPTATION
\* writes to the store; the insert at PERSISTED is the run's first write.
C9_NoWriteBeforePersisted ==
  [][\A r \in Runs :
       (run[r].pc \in BeforePersisted /\ Steps(r))
       => UNCHANGED << content_calendar, personality_consistency_score >>]_vars

\* C9 (amended): no step of a run in PLANNING through SOCIAL_ADAPTATION
\* writes to the content calendar, and a run that rejects has created no
\* item; the one write before PERSISTED is the consistency score of the
\* persona profile, written by updateConsistencyMetrics in GENERATING.
C9_CalendarUntouchedBeforePersisted ==
  [][\A r \in Runs :
       /\ (run[r].pc \in BeforePersisted \cup {"checkDailyLimits"} /\ Steps(r))
          => /\ UNCHANGED content_calendar
             /\ run'[r].savedContent = 0
             /\ (personality_consistency_score' # personality_consistency_score
                   => run[r].pc = "updateConsistencyMetrics")
       /\ (Steps(r) /\ run'[r].outcome.state = "rejected")
          => UNCHANGED content_calendar]_vars

\* A run has failed in GENERATING..SOCIAL_ADAPTATION after the profile was
\* written, and the calendar is empty.
C9_Witness ==
  \E r \in Runs :
    /\ run[r].pc = "done"
    /\ run[r].outcome = Rejected("insert failed")
    /\ personality_consistency_score > 0
    /\ content_calendar = << >>

\* A daily_content handler invocation that has ended at its quota guard.
EndedAtGuard(r) ==
  /\ run[r].pc = "done"
  /\ run[r].job = "daily_content"
  /\ run[r].outcome.state = "none"
  /\ checkDailyLimits(content_calendar, day) >= daily_content_limit

\* C10 (as claimed): a trigger of daily_content with the quota met yields a
\* daily_limit_reached result.
C10_TriggerYieldsLimitResult ==
  \A r \in Runs :
    EndedAtGuard(r) => run[r].handlerResult = LimitResult.reason

\* C10 (amended): a daily_content handler whose own quota check finds the
\* quota met ends in that step without calling generateDailyContent, creates
\* no item, and resolves with no value (undefined), however often it is
\* triggered.
C10_GuardSkipsRun ==
  [][\A r \in Runs :
       (/\ run[r].pc = "handler_checkDailyLimits"
        /\ checkDailyLimits(content_calendar, day) >= daily_content_limit
        /\ Steps(r))
       => /\ run'[r].pc = "done"
          /\ run'[r].outcome = NoOutcome
          /\ run'[r].handlerResult = "undefined"
          /\ run'[r].savedContent = 0
          /\ UNCHANGED << content_calendar, personality_consistency_score >>]_vars

\* Two triggers of daily_content have both ended at the guard, the quota
\* being met, and the day holds no more items than before.
C10_Witness ==
  /\ \A r \in Runs : EndedAtGuard(r) /\ run[r].handlerResult = "undefined"
  /\ checkDailyLimits(content_calendar, day) = daily_content_limit
  /\ Len(content_calendar) = daily_content_limit

\* C11: when AUTO_PUBLISH has run, the run has completed with success = true
\* whatever the update did: after a successful update the item is published;
\* after a failed one the item is still ready and publish_result reports the
\* failure.  A run that created an item never ends otherwise than with
\* success.
C11_PublishFailureNotFatal ==
  \A r \in Runs :
    run[r].pc = "done"
    => /\ (run[r].savedContent # 0
            => /\ run[r].outcome.success
               /\ run[r].outcome.content = run[r].savedContent)
       /\ (run[r].outcome.success
            => LET row == content_calendar[run[r].outcome.content]
               IN /\ (run[r].outcome.publish_result = "published"
                        => row.status = "published")
                  /\ (run[r].outcome.publish_result = "failed"
                        => row.status = "ready")
                  /\ (run[r].outcome.publish_result = "null"
                        => row.status # "published"))

\* A run has ended with success although its publication failed, and its
\* item is still ready.
C11_Witness ==
  \E r \in Runs :
    /\ run[r].pc = "done"
    /\ run[r].outcome.success
    /\ run[r].outcome.publish_result = "failed"
    /\ content_calendar[run[r].outcome.content].status = "ready"

\* C12: when the script call of GENERATING fails, the run ends in that step
\* as a rejected run: no later stage is entered and no item is created.  The
\* stages before it that call a service (the topic choice, the knowledge
\* lookup) never end the run.
C12_ScriptFailureIsFatal ==
  [][\A r \in Runs :
       Steps(r) =>
         /\ (run[r].pc = "generateHVACScript"
              => \/ run'[r].pc = "evaluateConsistency"
                 \/ /\ run'[r].pc = "done"
                    /\ run'[r].outcome = Rejected("Content generation failed")
                    /\ run'[r].savedContent = 0
                    /\ UNCHANGED << content_calendar,
                                    personality_consistency_score >>)
         /\ (run[r].pc \in {"selectOptimalTopic", "gatherKnowledgeContext"}
              => run'[r].pc \in BetweenCheckAndPersist)]_vars

\* A run has been rejected by the failed script call and the calendar is
\* empty.
C12_Witness ==
  \E r \in Runs :
    /\ run[r].pc = "done"
    /\ run[r].outcome = Rejected("Content generation failed")
    /\ run[r].savedContent = 0
    /\ content_calendar = << >>

\* C13: a failed insert at PERSISTED rejects the run in that step: the
\* calendar is unchanged, the run holds no item, and it does not go on to
\* AUTO_PUBLISH; a run is in AUTO_PUBLISH only for an item it created.
C13_PersistenceFailureIsFatal ==
  [][\A r \in Runs :
       (run[r].pc = "saveGeneratedContent" /\ Steps(r))
       => \/ /\ UNCHANGED content_calendar
             /\ run'[r].pc = "done"
             /\ run'[r].outcome = Rejected("insert failed")
             /\ run'[r].savedContent = 0
          \/ /\ Len(content_calendar') = Len(content_calendar) + 1
             /\ run'[r].savedContent = Len(content_calendar')
             /\ run'[r].pc \in {"autoPublishContent", "done"}
             /\ run'[r].outcome.state # "rejected"]_vars

\* A run has been rejected by the failed insert while auto-publish is
\* enabled, and no item exists.
C13_Witness ==
  \E r \in Runs :
    /\ run[r].pc = "done"
    /\ run[r].outcome = Rejected("insert failed")
    /\ settings.auto_publish_enabled
    /\ content_calendar = << >>

\* C18: a consistency score below the threshold never ends a run: the run
\* goes on to the quality gate, and the status it persists is decided by the
\* approval alone, ready when approved and reviewing when not.
C18_SubThresholdStillPersists ==
  [][\A r \in Runs :
       Steps(r) =>
         /\ (run[r].pc \in {"evaluateConsistency", "updateConsistencyMetrics"}
              => run'[r].pc \in {"updateConsistencyMetrics", "performQualityCheck"})
         /\ (/\ run[r].pc = "saveGeneratedContent"
             /\ ~run[r].contentResult.meets_threshold
             /\ content_calendar' # content_calendar
             => content_calendar'[Len(content_calendar')].status
                  = IF run[r].qualityCheck.approved THEN "ready" ELSE "reviewing")]_vars

\* C19: the stages KNOWLEDGE_GATHERING, AUDIO and SOCIAL_ADAPTATION never end
\* a run, whatever their call does, and the run persists an item with status
\* ready or reviewing.
C19_FallbackStagesNeverBlock ==
  [][\A r \in Runs :
       Steps(r) =>
         /\ (run[r].pc \in {"gatherKnowledgeContext", "generateVoiceAudio",
                             "generateSocialContent"}
              => run'[r].pc \in BetweenCheckAndPersist)
         /\ (/\ run[r].pc = "saveGeneratedContent"
             /\ content_calendar' # content_calendar
             => content_calendar'[Len(content_calendar')].status
                  \in {"ready", "reviewing"})]_vars

\* Stages of a run that follow the quality gate.
AfterQualityGate ==
  {"generateVoiceAudio", "generateSocialContent", "saveGeneratedContent",
   "autoPublishContent"}

\* C20: performQualityCheck never raises: a run past the quality gate holds a
\* review.  When the call failed or the answer had no JSON, the review is the
\* default: overall_score 75, manual_review_required true and approved the
\* negation of the technical_review_required setting.
C20_ConservativeDefault ==
  \A r \in Runs :
    /\ (run[r].pc \in AfterQualityGate <=> run[r].qualityCheck.defined)
    /\ (run[r].qualityCheck.defined /\ ~run[r].qualityCheck.parsed
         => /\ run[r].qualityCheck.overall_score = 75
            /\ run[r].qualityCheck.manual_review_required
            /\ run[r].qualityCheck.approved = ~settings.technical_review_required)

\* A run holds the default review and is not approved, technical review
\* being required.
C20_Witness ==
  \E r \in Runs :
    /\ run[r].qualityCheck.defined
    /\ ~run[r].qualityCheck.parsed
    /\ ~run[r].qualityCheck.approved
    /\ settings.technical_review_required
    /\ run[r].pc = "saveGeneratedContent"

(* ================= RESEARCHING and TOPIC_SELECTION in detail ========= *)
(* One call of conductResearch followed by selectOptimalTopic, query by    *)
(* query.  The answers of the four research queries and the planned        *)
(* content type are the inputs; the pipeline's own state stays as          *)
(* constructed.                                                            *)

\* generator.js 212-217: researchQueries has four entries
NumQueries == 4

Queries == 1..NumQueries

\* What researchTopic (anthropic-client.js 76-157) can do for one query: throw
\* (call failure, no JSON, JSON.parse error) or return the parsed JSON as the
\* service wrote it.  content_angles may be missing, a list of strings, or a
\* plain string where the list was asked for.
ResearchAnswers ==
  { [kind |-> "fail", urgency_level |-> "none", content_angles |-> "absent"] }
  \cup [kind : {"json"},
        urgency_level : UrgencyLevels,
        content_angles : {"absent", "list", "text"}]

\* The angles a result of query i carries when content_angles is a list, and
\* the string it carries when content_angles is text.
AngleList ==
  << << "q1 angle 1", "q1 angle 2" >>, << "q2 angle 1", "q2 angle 2" >>,
     << "q3 angle 1", "q3 angle 2" >>, << "q4 angle 1", "q4 angle 2" >> >>

AngleText == << "q1 angles", "q2 angles", "q3 angles", "q4 angles" >>

\* contentPlan.content_type: a type of the day-of-week table, or a
\* force_content_type the fallback table does not list
PlannedTypes == {"technical", "safety", "unlisted"}

\* generator.js 325-351: fallbackTopics[content_type] || fallbackTopics.technical
FallbackTopics(type) ==
  IF type = "safety"
  THEN { "Electrical Safety in HVAC Work",
         "Confined Space Safety for HVAC Technicians",
         "Chemical Safety with HVAC Cleaning Products" }
  ELSE { "HVAC System Diagnostics Made Simple",
         "Understanding Heat Pump Efficiency Ratings",
         "Refrigerant Charging Best Practices" }

\* Answers of the generative topic choice (generator.js 309): a failure or a
\* text.
SelectionAnswers ==
  { [kind |-> "fail", text |-> ""],
    [kind |-> "text", text |-> "Heat Pump Defrost Cycles"],
    [kind |-> "text", text |-> "\"Heat Pump Defrost Cycles\""],
    [kind |-> "text", text |-> "  "] }

\* generator.js 314: selectedTopic.trim().replace(/^["']|["']$/g, '')
CleanTopic(text) ==
  CASE text = "  " -> ""
    [] text = "\"Heat Pump Defrost Cycles\"" -> "Heat Pump Defrost Cycles"
    [] OTHER -> text

\* generator.js 229-232: { query, ...research }
ResearchResult(i, answer) ==
  [query |-> i, urgency_level |-> answer.urgency_level,
   content_angles |-> answer.content_angles]

\* generator.js 244: r.content_angles || [], as .flat() leaves it
AnglesOf(r) ==
  CASE r.content_angles = "list" -> AngleList[r.query]
    [] r.content_angles = "text" -> << AngleText[r.query] >>
    [] OTHER -> << >>

\* generator.js 242-245: filter on the urgency, map to the angles, flat
RECURSIVE UrgentTopics(_)
UrgentTopics(results) ==
  IF results = << >> THEN << >>
  ELSE (IF IsUrgent(Head(results).urgency_level)
        THEN AnglesOf(Head(results)) ELSE << >>)
       \o UrgentTopics(Tail(results))

\* generator.js 278-280: r.content_angles && r.content_angles.length > 0
HasAngles(r) == r.content_angles \in {"list", "text"}

RelevantResearch(results) == SelectSeq(results, HasAngles)

\* generator.js 296-298: r.content_angles?.map(...) is not a function when
\* content_angles is a string
PromptRaises(relevant) ==
  \E k \in DOMAIN relevant : relevant[k].content_angles = "text"

\* generator.js 320: relevantResearch[0].content_angles[0]
FirstAngle(r) == AngleList[r.query][1]

NoResearch == [results |-> << >>, urgent_topics |-> << >>, sources |-> 0,
               fallback_used |-> "undefined"]

\* generator.js 247-252: what conductResearch returns after the loop
ResearchData(results) ==
  [results |-> results, urgent_topics |-> UrgentTopics(results),
   sources |-> Len(results), fallback_used |-> "undefined"]

\* generator.js 255-262: what the outer catch of conductResearch returns
ResearchFallback == [NoResearch EXCEPT !.fallback_used = "true"]

\* generator.js 219-240: the loop goes on to the next query, which is issued,
\* or ends.  issued lists the queries in the order researchTopic was called
\* for them.
AfterQuery(c) ==
  IF c.i < NumQueries
  THEN [c EXCEPT !.i = c.i + 1, !.pc = "researchTopic",
                 !.issued = Append(@, c.i + 1)]
  ELSE [c EXCEPT !.pc = "conductResearch_returned",
                 !.researchData = ResearchData(c.researchResults)]

InitResearch ==
  /\ day = 1
  /\ settings = [content_generation_enabled |-> TRUE,
                 auto_publish_enabled |-> FALSE,
                 technical_review_required |-> FALSE]
  /\ content_calendar = << >>
  /\ personality_consistency_score = 0
  /\ run = [r \in Runs |-> IdleRun]
  /\ \E type \in PlannedTypes, answers \in [Queries -> ResearchAnswers] :
       call = [pc |-> "researchTopic", content_type |-> type,
               answers |-> answers, i |-> 1, researchResults |-> << >>,
               researchData |-> NoResearch, topic |-> "undefined",
               via |-> "none", issued |-> << 1 >>, selections |-> 0]

Pipeline == << day, settings, content_calendar, personality_consistency_score, run >>

\* A failed query ends the loop: conductResearch returns its fallback.
researchTopicAnswersAborts ==
  /\ call.pc = "researchTopic"
  /\ LET answer == call.answers[call.i] IN
       call' = IF answer.kind = "fail"
               THEN [call EXCEPT !.pc = "conductResearch_returned",
                                 !.researchData = ResearchFallback]
               ELSE [call EXCEPT
                       !.researchResults =
                          Append(@, ResearchResult(call.i, answer)),
                       !.pc = "delay"]
  /\ UNCHANGED Pipeline

\* A failed query is issued a second time before the loop goes on.
researchTopicAnswersRetries ==
  /\ call.pc = "researchTopic"
  /\ LET answer == call.answers[call.i]
         attempts == Len(SelectSeq(call.issued, LAMBDA q : q = call.i))
     IN  call' = IF answer.kind = "fail"
                 THEN (IF attempts < 2
                       THEN [call EXCEPT !.issued = Append(@, call.i)]
                       ELSE AfterQuery(call))
                 ELSE [call EXCEPT
                         !.researchResults =
                            Append(@, ResearchResult(call.i, answer)),
                         !.pc = "delay"]
  /\ UNCHANGED Pipeline

\* generator.js 222-239: query i answered.  A result is pushed and the delay
\* starts; a failure is logged and the loop goes on.
researchTopicAnswers ==
  /\ call.pc = "researchTopic"
  /\ LET answer == call.answers[call.i] IN
       call' = IF answer.kind = "fail"
               THEN AfterQuery(call)
               ELSE [call EXCEPT
                       !.researchResults =
                          Append(@, ResearchResult(call.i, answer)),
                       !.pc = "delay"]
  /\ UNCHANGED Pipeline

\* generator.js 235: the delay after a successful query has elapsed
delay ==
  /\ call.pc = "delay"
  /\ call' = AfterQuery(call)
  /\ UNCHANGED Pipeline

Selected(topic, via) ==
  [call EXCEPT !.pc = "topicSelected", !.topic = topic, !.via = via]

\* The research-suggested topics are tried before the urgent ones.
selectOptimalTopicResearchFirst ==
  /\ call.pc = "conductResearch_returned"
  /\ LET researchData == call.researchData
         relevantResearch == RelevantResearch(researchData.results)
     IN  IF relevantResearch # << >>
         THEN call' = IF PromptRaises(relevantResearch)
                      THEN [call EXCEPT !.pc = "raised"]
                      ELSE [call EXCEPT !.pc = "generateContent",
                                        !.selections = @ + 1]
         ELSE IF Len(researchData.urgent_topics) > 0
         THEN call' = Selected(researchData.urgent_topics[1], "urgent")
         ELSE \E topic \in FallbackTopics(call.content_type) :
                call' = Selected(topic, "fallback")
  /\ UNCHANGED Pipeline

\* generator.js 269-307 and 324-357: selectOptimalTopic up to its await.  An
\* urgent topic is returned at once; with research that carries angles the
\* prompt is built (which can raise) and the service is asked; otherwise a
\* topic of the fallback table is drawn.
selectOptimalTopicCall ==
  /\ call.pc = "conductResearch_returned"
  /\ LET researchData == call.researchData
         relevantResearch == RelevantResearch(researchData.results)
     IN  IF Len(researchData.urgent_topics) > 0
         THEN call' = Selected(researchData.urgent_topics[1], "urgent")
         ELSE IF relevantResearch # << >>
         THEN call' = IF PromptRaises(relevantResearch)
                      THEN [call EXCEPT !.pc = "raised"]
                      ELSE [call EXCEPT !.pc = "generateContent",
                                        !.selections = @ + 1]
         ELSE \E topic \in FallbackTopics(call.content_type) :
                call' = Selected(topic, "fallback")
  /\ UNCHANGED Pipeline

\* generator.js 308-321: the generative choice answered.  Its text is cleaned
\* and returned; on a failure the first angle of the first relevant result is.
generateContentAnswers ==
  /\ call.pc = "generateContent"
  /\ \E answer \in SelectionAnswers :
       call' = IF answer.kind = "fail"
               THEN Selected(FirstAngle(RelevantResearch(
                               call.researchData.results)[1]), "first_angle")
               ELSE Selected(CleanTopic(answer.text), "service")
  /\ UNCHANGED Pipeline

NextResearch ==
  \/ researchTopicAnswers
  \/ delay
  \/ selectOptimalTopicCall
  \/ generateContentAnswers

SpecResearch == InitResearch /\ [][NextResearch]_vars

(* ---- helpers of the research claims ---- *)
Failed(i) == call.answers[i].kind = "fail"

ResearchReturned ==
  call.pc \in {"conductResearch_returned", "generateContent", "topicSelected",
               "raised"}

TopicDecided == call.pc \in {"generateContent", "topicSelected", "raised"}

\* the queries that did not fail, in query order
Succeeded == SelectSeq(<< 1, 2, 3, 4 >>, LAMBDA i : ~Failed(i))

UrgentWithAngles(i) ==
  /\ ~Failed(i)
  /\ IsUrgent(call.answers[i].urgency_level)
  /\ call.answers[i].content_angles # "absent"

(* C14: when some but not all research queries fail, the failed queries are
   skipped: research returns exactly the results of the queries that did not
   fail, in query order, without the fallback flag, and the run goes on to
   topic selection. *)
C14_PartialResearchKept ==
  ResearchReturned =>
    LET results == call.researchData.results IN
      /\ Len(results) = Len(Succeeded)
      /\ \A k \in DOMAIN results :
           results[k] = ResearchResult(Succeeded[k], call.answers[Succeeded[k]])
      /\ call.researchData.sources = Len(Succeeded)
      /\ call.researchData.fallback_used # "true"

C14_Witness ==
  /\ call.pc = "conductResearch_returned"
  /\ Failed(2) /\ Failed(4) /\ ~Failed(1) /\ ~Failed(3)
  /\ Len(call.researchData.results) = 2
  /\ call.researchData.results[2].query = 3

(* C15 (as stated): when every research query fails, research ends with the
   empty result set and the fallback flag set. *)
C15_AllFailedSetsFallback ==
  (ResearchReturned /\ \A i \in Queries : Failed(i)) =>
    /\ call.researchData.results = << >>
    /\ call.researchData.fallback_used = "true"

(* C16 (as stated): whenever a research result has urgency emergency or high,
   the selected topic comes from the urgent results and neither the
   generative choice nor the fallback table is used. *)
C16_UrgentResultWins ==
  (TopicDecided /\ \E i \in Queries :
                     ~Failed(i) /\ IsUrgent(call.answers[i].urgency_level)) =>
    call.pc = "topicSelected" /\ call.via = "urgent"

(* C16 (amended): whenever an urgent research result carries content angles,
   the first angle of the first such result in query order is the selected
   topic, and neither the generative choice nor the fallback table is used. *)
C16_UrgentAngleWins ==
  (TopicDecided /\ \E i \in Queries : UrgentWithAngles(i)) =>
    LET first == CHOOSE i \in Queries :
                   /\ UrgentWithAngles(i)
                   /\ \A j \in Queries : UrgentWithAngles(j) => i <= j
    IN  /\ call.pc = "topicSelected"
        /\ call.via = "urgent"
        /\ call.topic = IF call.answers[first].content_angles = "list"
                        THEN AngleList[first][1] ELSE AngleText[first]

C16_Witness ==
  /\ call.pc = "topicSelected" /\ call.via = "urgent"
  /\ call.topic = "q3 angle 1"
  /\ ~Failed(1) /\ call.answers[1].content_angles = "list"
  /\ ~IsUrgent(call.answers[1].urgency_level)

(* C17 (as stated): topic selection always ends with one non-empty topic,
   whatever research returned and whatever the generative choice answered. *)
C17_AlwaysOneTopic ==
  /\ call.pc # "raised"
  /\ call.pc = "topicSelected" => call.topic \notin {"", "undefined"}

(* ================= evaluateConsistency in detail ===================== *)
(* One call of evaluateConsistency: the answer of the evaluation call and   *)
(* the outcome of the profile update are the inputs.                        *)

Number(n) == [type |-> "number", value |-> n]

Undefined == [type |-> "undefined", value |-> 0]

\* overall_score values the evaluation may carry (the prompt asks for 0-100
\* but nothing enforces it)
ScoreSamples == {0 - 5, 0, 75, 94, 100, 150}

\* character.js 259-265: what anthropic.generateContent can answer: a JSON
\* object with or without overall_score, text without braces, text whose
\* braces do not parse, or a failure of the call
EvaluationSamples ==
  [kind : {"json"}, has_score : {TRUE}, overall_score : ScoreSamples]
  \cup { [kind |-> "json", has_score |-> FALSE, overall_score |-> 0],
         [kind |-> "nojson", has_score |-> FALSE, overall_score |-> 0],
         [kind |-> "badjson", has_score |-> FALSE, overall_score |-> 0],
         [kind |-> "error", has_score |-> FALSE, overall_score |-> 0] }

\* character.js 271: scores.overall_score
OverallScore(resp) ==
  IF resp.has_score THEN Number(resp.overall_score) ELSE Undefined

\* character.js 259-279: the value evaluateConsistency resolves with
evaluateConsistencyValue(resp) ==
  CASE resp.kind = "json"   -> OverallScore(resp)
    [] resp.kind = "nojson" -> Number(DefaultScoreNoJson)
    [] OTHER                -> Number(DefaultScoreOnError)

ProfileScores == {0, 70, 88, 95}

InitEvaluate ==
  /\ day = 1
  /\ settings = [content_generation_enabled |-> TRUE,
                 auto_publish_enabled |-> FALSE,
                 technical_review_required |-> FALSE]
  /\ content_calendar = << >>
  /\ personality_consistency_score = 0
  /\ run = [r \in Runs |-> IdleRun]
  /\ \E resp \in EvaluationSamples, before \in ProfileScores :
       call = [pc |-> "generateContent", resp |-> resp,
               profile_score |-> Number(before),
               stored_score |-> Number(before), before |-> Number(before),
               stored |-> "none", result |-> Undefined,
               raised |-> FALSE]

\* The defaults are written to the profile like a parsed score.
consistencyEvaluationAnswersStoresDefault ==
  /\ call.pc = "generateContent"
  /\ call' = IF call.resp.kind = "json"
             THEN [call EXCEPT !.pc = "updateConsistencyMetrics"]
             ELSE [call EXCEPT !.pc = "evaluated",
                               !.profile_score = evaluateConsistencyValue(call.resp),
                               !.stored_score = evaluateConsistencyValue(call.resp),
                               !.result = evaluateConsistencyValue(call.resp)]
  /\ UNCHANGED Pipeline

\* character.js 259-279: the evaluation call answered.  Parsed scores go to
\* updateConsistencyMetrics; everything else returns a default.
consistencyEvaluationAnswers ==
  /\ call.pc = "generateContent"
  /\ call' = IF call.resp.kind = "json"
             THEN [call EXCEPT !.pc = "updateConsistencyMetrics"]
             ELSE [call EXCEPT !.pc = "evaluated",
                               !.result = evaluateConsistencyValue(call.resp)]
  /\ UNCHANGED Pipeline

\* character.js 285-301 and 271: the profile update answered.  On success
\* the row of character_profile (stored_score) holds the score and the
\* in-memory profile (profile_score) takes it; a failure is logged and
\* neither changes.  Either way evaluateConsistency returns
\* scores.overall_score.
consistencyMetricsStored ==
  /\ call.pc = "updateConsistencyMetrics"
  /\ \E stored \in BOOLEAN :
       call' = [call EXCEPT
                  !.pc = "evaluated",
                  !.stored = IF stored THEN "yes" ELSE "no",
                  !.stored_score = IF stored THEN OverallScore(call.resp)
                                   ELSE @,
                  !.profile_score = IF stored THEN OverallScore(call.resp)
                                    ELSE @,
                  !.result = evaluateConsistencyValue(call.resp)]
  /\ UNCHANGED Pipeline

NextEvaluate ==
  \/ consistencyEvaluationAnswers
  \/ consistencyMetricsStored

SpecEvaluate == InitEvaluate /\ [][NextEvaluate]_vars

(* C21 (as stated): evaluateConsistency never raises and always returns a
   number between 0 and 100, and an answer that is not a well-formed JSON
   object yields the default 75. *)
C21_ScoreInRangeDefault75 ==
  call.pc = "evaluated" =>
    /\ ~call.raised
    /\ call.result.type = "number"
    /\ call.result.value \in 0..100
    /\ call.resp.kind \in {"nojson", "badjson"} =>
         call.result.value = DefaultScoreNoJson

(* ================= knowledge verification in detail ================== *)
(* Table hvac_knowledge under addKnowledge, the verification loop of        *)
(* handleKnowledgeMaintenance and updateVerification, one call at a time.   *)

\* most entries the table holds in the model
MaxEntries == 2

\* knowledge-base.js 114: verified: verification.accuracy_score >= 85
VerifiedThreshold == 85

\* knowledge-base.js 211: accuracy_score of the fallback verification
VerificationFailedScore == 70

\* The pipeline as constructed, which these calls leave alone.
PipelineAsConstructed ==
  /\ day = 1
  /\ settings = [content_generation_enabled |-> TRUE,
                 auto_publish_enabled |-> FALSE,
                 technical_review_required |-> FALSE]
  /\ content_calendar = << >>
  /\ personality_consistency_score = 0
  /\ run = [r \in Runs |-> IdleRun]

\* knowledge-base.js 189-199: answers of the verification call: a JSON object
\* with its own accuracy_score and verified, text without braces, text whose
\* braces do not parse, or a failure of the call
VerificationAnswers ==
  [kind : {"json"}, accuracy_score : {60, 85, 93, 150}, verified : BOOLEAN]
  \cup [kind : {"nojson", "badjson", "error"}, accuracy_score : {0},
        verified : {FALSE}]

NoVerification ==
  [accuracy_score |-> 0, verified |-> FALSE, requires_manual_review |-> FALSE,
   defined |-> FALSE]

\* The fallback verification turns out approving.
verifyKnowledgeAccuracyOptimistic(answer) ==
  IF answer.kind = "json"
  THEN [accuracy_score |-> answer.accuracy_score,
        verified |-> answer.verified,
        requires_manual_review |-> FALSE, defined |-> TRUE]
  ELSE [accuracy_score |-> 90, verified |-> TRUE,
        requires_manual_review |-> FALSE, defined |-> TRUE]

\* knowledge-base.js 188-217: the parsed JSON as it is, or the fallback
verifyKnowledgeAccuracy(answer) ==
  IF answer.kind = "json"
  THEN [accuracy_score |-> answer.accuracy_score,
        verified |-> answer.verified,
        requires_manual_review |-> FALSE, defined |-> TRUE]
  ELSE [accuracy_score |-> VerificationFailedScore, verified |-> FALSE,
        requires_manual_review |-> TRUE, defined |-> TRUE]

\* knowledge-base.js 14-47: a category of this.categories, or another string
CategorySamples == {"refrigeration", "safety_procedures", "plumbing"}

ValidCategory(category) == category \in {"refrigeration", "safety_procedures"}

\* knowledge-base.js 104-118: the row addKnowledge inserts.  verification is
\* what the verification routine last returned for the entry; the table has
\* no column for it.
KnowledgeEntry(verification) ==
  [verified |-> verification.accuracy_score >= VerifiedThreshold,
   verification |-> verification]

\* scheduler.js 283-289: ids of the rows WHERE verified = false
RECURSIVE Unverified(_, _)
Unverified(knowledge, i) ==
  IF i > Len(knowledge) THEN << >>
  ELSE (IF knowledge[i].verified THEN << >> ELSE << i >>)
       \o Unverified(knowledge, i + 1)

IdleKnowledge(knowledge, outcome) ==
  [pc |-> "idle", knowledge |-> knowledge, op |-> "none",
   answer_kind |-> "none", verification |-> NoVerification,
   pending |-> << >>, outcome |-> outcome]

InitKnowledge ==
  /\ PipelineAsConstructed
  /\ call = IdleKnowledge(<< >>, "none")

\* knowledge-base.js 75-94: addKnowledge up to the verification call
addKnowledge ==
  /\ call.pc = "idle"
  /\ Len(call.knowledge) < MaxEntries
  /\ \E category \in CategorySamples :
       call' = IF ValidCategory(category)
               THEN [call EXCEPT !.pc = "verifyKnowledgeAccuracy",
                                 !.op = "addKnowledge", !.outcome = "none"]
               ELSE IdleKnowledge(call.knowledge, "threw")
  /\ UNCHANGED Pipeline

\* scheduler.js 276-291: handleKnowledgeMaintenance up to the first
\* verification call
handleKnowledgeMaintenance ==
  /\ call.pc = "idle"
  /\ LET unverifiedEntries == Unverified(call.knowledge, 1) IN
       call' = IF unverifiedEntries = << >>
               THEN IdleKnowledge(call.knowledge, "returned")
               ELSE [call EXCEPT !.pc = "verifyKnowledgeAccuracy",
                                 !.op = "handleKnowledgeMaintenance",
                                 !.pending = unverifiedEntries,
                                 !.outcome = "none"]
  /\ UNCHANGED Pipeline

\* knowledge-base.js 188-217: the verification call answered
verificationAnswers ==
  /\ call.pc = "verifyKnowledgeAccuracy"
  /\ \E answer \in VerificationAnswers :
       call' = [call EXCEPT !.pc = "database",
                            !.answer_kind = answer.kind,
                            !.verification = verifyKnowledgeAccuracy(answer)]
  /\ UNCHANGED Pipeline

\* knowledge-base.js 96-136: subcategory and tags never fail; the insert
\* returns the row or throws, and addKnowledge rethrows
knowledgeCreated ==
  /\ call.pc = "database" /\ call.op = "addKnowledge"
  /\ \/ call' = IdleKnowledge(
                  Append(call.knowledge, KnowledgeEntry(call.verification)),
                  "returned")
     \/ call' = IdleKnowledge(call.knowledge, "threw")
  /\ UNCHANGED Pipeline

\* scheduler.js 299-318: the update of the entry answered; the loop goes on
\* to the next unverified entry
maintenanceUpdated ==
  /\ call.pc = "database" /\ call.op = "handleKnowledgeMaintenance"
  /\ LET id == Head(call.pending)
         rest == Tail(call.pending)
     IN \E stored \in BOOLEAN :
          LET knowledge ==
                IF stored
                THEN [call.knowledge EXCEPT
                        ![id] = [verified |-> call.verification.verified,
                                 verification |-> call.verification]]
                ELSE call.knowledge
          IN  call' = IF rest = << >>
                      THEN IdleKnowledge(knowledge, "returned")
                      ELSE [call EXCEPT !.pc = "verifyKnowledgeAccuracy",
                                        !.knowledge = knowledge,
                                        !.pending = rest,
                                        !.answer_kind = "none",
                                        !.verification = NoVerification]
  /\ UNCHANGED Pipeline

\* knowledge-base.js 569-589: updateVerification writes the caller's flag
updateVerification ==
  /\ call.pc = "idle"
  /\ \E id \in DOMAIN call.knowledge, verified \in BOOLEAN :
       \/ call' = IdleKnowledge(
                    [call.knowledge EXCEPT ![id].verified = verified],
                    "returned")
       \/ call' = IdleKnowledge(call.knowledge, "threw")
  /\ UNCHANGED Pipeline

NextKnowledge ==
  \/ addKnowledge
  \/ handleKnowledgeMaintenance
  \/ verificationAnswers
  \/ knowledgeCreated
  \/ maintenanceUpdated
  \/ updateVerification

SpecKnowledge == InitKnowledge /\ [][NextKnowledge]_vars

(* C22 (as stated): the verification routine always returns an accuracy
   score between 0 and 100, and an entry is verified only if the routine
   returned a score of at least 85 for it, whichever operation set the
   flag. *)
C22_VerifiedOnlyAboveThreshold ==
  /\ call.verification.defined =>
       call.verification.accuracy_score \in 0..100
  /\ \A id \in DOMAIN call.knowledge :
       call.knowledge[id].verified =>
         call.knowledge[id].verification.accuracy_score >= VerifiedThreshold

(* C23: when the verification answer is not JSON, does not parse, or the
   call fails, the routine returns accuracy_score 70, verified false and
   requires_manual_review true without raising, and the entry addKnowledge
   then inserts is not verified. *)
C23_FailedVerificationNotVerified ==
  [][ /\ (call.pc = "verifyKnowledgeAccuracy" /\ call' # call
          /\ call'.answer_kind # "json")
        => /\ call'.pc = "database"
           /\ call'.verification.accuracy_score = 70
           /\ ~call'.verification.verified
           /\ call'.verification.requires_manual_review
      /\ (call.pc = "database" /\ call.op = "addKnowledge"
          /\ call.answer_kind # "json"
          /\ Len(call'.knowledge) > Len(call.knowledge))
        => ~call'.knowledge[Len(call'.knowledge)].verified ]_vars

C23_Witness ==
  /\ call.pc = "idle" /\ call.outcome = "returned"
  /\ Len(call.knowledge) = 1
  /\ call.knowledge[1].verification.requires_manual_review
  /\ call.knowledge[1].verification.accuracy_score = 70
  /\ ~call.knowledge[1].verified

(* ================= updateCharacterSettings in detail ================= *)
(* The loaded persona profile under updateCharacterSettings, one call at a  *)
(* time.  A field holds its original value or the value a patch gave it.    *)

\* most calls of updateCharacterSettings in one behaviour
MaxSettingsCalls == 2

\* character.js 370-377: allowedUpdates
AllowedUpdates ==
  { "empathy_level", "technical_complexity", "safety_focus",
    "brand_integration", "voice_stability", "voice_clarity" }

\* schema.sql 94-123: the columns of character_profile the model follows
ProfileFields ==
  AllowedUpdates \cup { "name", "active", "personality_consistency_score",
                        "updated_at" }

\* keys a request body may carry: columns, and names that are no column
PatchKeys == AllowedUpdates \cup {"name", "active", "unknown_trait"}

\* No allow-list: every key that is a column is taken.
ValidUpdatesAnyColumn(updates) == updates \cap ProfileFields

\* character.js 379-384: the keys of updates that are on the allow-list
ValidUpdates(updates) == updates \cap AllowedUpdates

\* connection.js 149-165: UPDATE ... SET <keys>, updated_at = NOW()
UpdatedProfile(profile, keys) ==
  [f \in ProfileFields |->
     IF f \in keys THEN "patched"
     ELSE IF f = "updated_at" THEN "now"
     ELSE profile[f]]

IdleSettings(profile, updates, outcome, calls) ==
  [pc |-> "idle", characterProfile |-> profile, updates |-> updates,
   outcome |-> outcome, calls |-> calls]

InitSettings ==
  /\ PipelineAsConstructed
  /\ call = IdleSettings([f \in ProfileFields |-> "original"], {}, "none", 0)

\* character.js 368-392: updateCharacterSettings up to the store update; with
\* no allow-listed key it throws 'No valid updates provided'
updateCharacterSettings ==
  /\ call.pc = "idle"
  /\ call.calls < MaxSettingsCalls
  /\ \E updates \in SUBSET PatchKeys :
       call' = IF ValidUpdates(updates) = {}
               THEN IdleSettings(call.characterProfile, updates, "threw",
                                 call.calls + 1)
               ELSE [call EXCEPT !.pc = "database.update",
                                 !.updates = updates, !.outcome = "none",
                                 !.calls = call.calls + 1]
  /\ UNCHANGED Pipeline

\* character.js 390-408: the store update answered: the returned row becomes
\* the profile and is returned, or the failure is rethrown
settingsUpdated ==
  /\ call.pc = "database.update"
  /\ \/ call' = IdleSettings(
                  UpdatedProfile(call.characterProfile,
                                 ValidUpdates(call.updates)),
                  call.updates, "returned", call.calls)
     \/ call' = IdleSettings(call.characterProfile, call.updates, "threw",
                             call.calls)
  /\ UNCHANGED Pipeline

NextSettings ==
  \/ updateCharacterSettings
  \/ settingsUpdated

SpecSettings == InitSettings /\ [][NextSettings]_vars

(* ---- helpers of the settings claim ---- *)
SettingsCallEnds == call' # call /\ call'.pc = "idle"

StoreFailed == call.pc = "database.update" /\ call'.outcome = "threw"

(* C24 (as stated): whatever the patch, one made only of disallowed fields
   included, updateCharacterSettings does not raise (the store working),
   changes no field outside the allow-list, and returns the profile. *)
C24_NeverRaises ==
  [][ (SettingsCallEnds /\ ~StoreFailed) =>
        /\ call'.outcome = "returned"
        /\ \A f \in ProfileFields \ (AllowedUpdates \cup {"updated_at"}) :
             call'.characterProfile[f] = call.characterProfile[f] ]_vars

(* C24 (amended): a patch with at least one allow-listed field has exactly
   its allow-listed fields applied, every other field but the store's
   updated_at stamp keeps its value, and the updated profile is returned
   unless the store update fails; a patch without any allow-listed field
   raises and changes nothing. *)
C24_AllowListOrRaise ==
  [][ SettingsCallEnds =>
        IF call'.updates \cap { "empathy_level", "technical_complexity",
                                "safety_focus", "brand_integration",
                                "voice_stability", "voice_clarity" } = {}
        THEN /\ call'.outcome = "threw"
             /\ call'.characterProfile = call.characterProfile
        ELSE \/ /\ call'.outcome = "threw"
                /\ call'.characterProfile = call.characterProfile
             \/ /\ call'.outcome = "returned"
                /\ \A f \in ProfileFields \ {"updated_at"} :
                     call'.characterProfile[f] =
                       IF f \in call'.updates /\ f \notin
                            {"name", "active", "personality_consistency_score"}
                       THEN "patched" ELSE call.characterProfile[f] ]_vars

C24_Witness ==
  /\ call.pc = "idle" /\ call.outcome = "returned"
  /\ call.updates = {"empathy_level", "active", "unknown_trait"}
  /\ call.characterProfile["empathy_level"] = "patched"
  /\ call.characterProfile["active"] = "original"

(* ================= initializeCharacter in detail ===================== *)
(* Every AlexReidCharacter instance starts initializeCharacter from its     *)
(* constructor without awaiting it; the instances share table               *)
(* character_profile.                                                       *)

\* generator.js 15, routes/character.js 10, routes/engagement.js 11
Engines == {"generator", "characterRoutes", "engagementRoutes"}

\* schema.sql 245 seeds one profile; a store that was not seeded has none
SeededProfiles == {0, 1}

\* character.js 10-12: an instance right after its constructor returned:
\* initializeCharacter is waiting for findMany, the profile is null (0)
ConstructedEngine == [pc |-> "findMany", characterProfile |-> 0]

InitProfile ==
  /\ PipelineAsConstructed
  /\ \E seeded \in SeededProfiles :
       call = [active_profiles |-> seeded,
               engine |-> [e \in Engines |-> ConstructedEngine]]

\* character.js 53-67: findMany of the active profiles answered: the first
\* row of the unordered SELECT is loaded, or createDefaultProfile starts; a
\* failure is rethrown
findManyAnswers(e) ==
  /\ call.engine[e].pc = "findMany"
  /\ \/ /\ call.active_profiles > 0
        /\ \E first \in 1..call.active_profiles :
             call' = [call EXCEPT !.engine[e] =
                        [pc |-> "ready", characterProfile |-> first]]
     \/ /\ call.active_profiles = 0
        /\ call' = [call EXCEPT !.engine[e].pc = "database.create"]
     \/ call' = [call EXCEPT !.engine[e].pc = "failed"]
  /\ UNCHANGED Pipeline

\* character.js 73-103: the insert of the default profile (active: true)
\* answered: the new row is the instance's profile, or the failure is rethrown
createDefaultProfile(e) ==
  /\ call.engine[e].pc = "database.create"
  /\ \/ call' = [call EXCEPT
                   !.active_profiles = @ + 1,
                   !.engine[e] = [pc |-> "ready",
                                  characterProfile |-> call.active_profiles + 1]]
     \/ call' = [call EXCEPT !.engine[e].pc = "failed"]
  /\ UNCHANGED Pipeline

NextProfile ==
  \/ \E e \in Engines : findManyAnswers(e)
  \/ \E e \in Engines : createDefaultProfile(e)

SpecProfile == InitProfile /\ [][NextProfile]_vars

(* C25 (as stated): once every instance has finished its initialisation, in
   whatever order the store answered them, the store holds exactly one
   active profile. *)
C25_ExactlyOneActiveProfile ==
  (\A e \in Engines : call.engine[e].pc = "ready") => call.active_profiles = 1

(* ================= the scheduling service in detail ================== *)
(* start, stop, status and trigger of the SchedulingService singleton, the  *)
(* cron ticks of its six jobs and the handlers they run.  What a handler    *)
(* does inside its try block is one outcome: done, or failed.               *)

\* scheduler.js 17-60: this.schedules
SchedulerJobs ==
  { "daily_content", "research_updates", "knowledge_maintenance",
    "analytics_collection", "file_cleanup", "health_check" }

\* scheduler.js 19-23: only daily_content can be disabled, by the environment
EnabledJobs(dailyEnabled) ==
  IF dailyEnabled THEN SchedulerJobs ELSE SchedulerJobs \ {"daily_content"}

\* names a caller may pass to triggerJob
TriggerNames == SchedulerJobs \cup {"unknown_job"}

\* How the body of a handler can end: it runs to its end, something in its
\* try block throws, or (daily_content, scheduler.js 183-189) it returns
\* early because the quota is reached.
WorkOutcomes(job) ==
  {"done", "failed"}
  \cup (IF job = "daily_content" THEN {"limit_reached"} ELSE {})

\* A handler that rethrows what its try block caught.
HandlerPromiseRethrows(job, work) ==
  IF work = "failed" THEN "rejected" ELSE "resolved"

\* scheduler.js 213-216, 267-270, 344-347, 395-398, 418-421, 458-461: the
\* catch of every handler logs and falls off the end, so the promise of the
\* handler resolves (with undefined) whatever its work did
HandlerPromise(job, work) == "resolved"

NoLast == [op |-> "none", job |-> "none", outcome |-> "none",
           work |-> "none", is_running |-> FALSE, active_jobs |-> {}]

Last(op, job, outcome, work) ==
  [NoLast EXCEPT !.op = op, !.job = job, !.outcome = outcome, !.work = work]

InitScheduler ==
  /\ PipelineAsConstructed
  /\ \E dailyEnabled \in BOOLEAN :
       call = [isRunning |-> FALSE, jobs |-> {},
               tasks |-> [j \in SchedulerJobs |-> 0],
               dailyEnabled |-> dailyEnabled,
               handler |-> [j \in SchedulerJobs |-> "idle"],
               last |-> NoLast]

\* start without the isRunning guard
startScheduledJobsUnguarded ==
  /\ call' = [call EXCEPT
                !.jobs = @ \cup EnabledJobs(call.dailyEnabled),
                !.tasks = [j \in SchedulerJobs |->
                             IF j \in EnabledJobs(call.dailyEnabled)
                             THEN call.tasks[j] + 1 ELSE call.tasks[j]],
                !.isRunning = TRUE,
                !.last = Last("start", "none", "started", "none")]
  /\ UNCHANGED Pipeline

\* scheduler.js 70-170: startScheduledJobs.  While running it warns and
\* returns; otherwise every enabled job gets one cron task, scheduled at
\* once, and an entry of this.jobs.
startScheduledJobs ==
  /\ call' = IF call.isRunning
             THEN [call EXCEPT !.last = Last("start", "none", "warned", "none")]
             ELSE [call EXCEPT
                     !.jobs = @ \cup EnabledJobs(call.dailyEnabled),
                     !.tasks = [j \in SchedulerJobs |->
                                  IF j \in EnabledJobs(call.dailyEnabled)
                                  THEN call.tasks[j] + 1 ELSE call.tasks[j]],
                     !.isRunning = TRUE,
                     !.last = Last("start", "none", "started", "none")]
  /\ UNCHANGED Pipeline

\* stop that leaves this.jobs as it is
stopScheduledJobsKeepsJobs ==
  /\ call' = IF ~call.isRunning
             THEN [call EXCEPT !.last = Last("stop", "none", "warned", "none")]
             ELSE [call EXCEPT
                     !.tasks = [j \in SchedulerJobs |->
                                  IF j \in call.jobs THEN 0 ELSE call.tasks[j]],
                     !.isRunning = FALSE,
                     !.last = Last("stop", "none", "stopped", "none")]
  /\ UNCHANGED Pipeline

\* scheduler.js 504-525: stopScheduledJobs.  While not running it warns and
\* returns; otherwise every task of this.jobs is stopped and the map cleared.
stopScheduledJobs ==
  /\ call' = IF ~call.isRunning
             THEN [call EXCEPT !.last = Last("stop", "none", "warned", "none")]
             ELSE [call EXCEPT
                     !.tasks = [j \in SchedulerJobs |->
                                  IF j \in call.jobs THEN 0 ELSE call.tasks[j]],
                     !.jobs = {},
                     !.isRunning = FALSE,
                     !.last = Last("stop", "none", "stopped", "none")]
  /\ UNCHANGED Pipeline

\* scheduler.js 530-537: getSchedulerStatus
getSchedulerStatus ==
  /\ call' = [call EXCEPT
                !.last = [Last("status", "none", "returned", "none") EXCEPT
                            !.is_running = call.isRunning,
                            !.active_jobs = call.jobs]]
  /\ UNCHANGED Pipeline

\* scheduler.js 79-157: a tick of the cron task of job, which calls the
\* handler bound to it
cronTick(job) ==
  /\ call.tasks[job] > 0
  /\ call.handler[job] = "idle"
  /\ call' = [call EXCEPT !.handler[job] = "cron"]
  /\ UNCHANGED Pipeline

\* triggerJob that ignores a name it does not know
triggerJobIgnoresUnknown(name) ==
  /\ name \in SchedulerJobs => call.handler[name] = "idle"
  /\ call' = IF name \in SchedulerJobs
             THEN [call EXCEPT !.handler[name] = "trigger",
                               !.last = Last("trigger", name, "pending", "none")]
             ELSE [call EXCEPT
                     !.last = Last("trigger", name, "returned", "none")]
  /\ UNCHANGED Pipeline

\* scheduler.js 560-579: triggerJob calls the handler of a known name and
\* awaits it; any other name throws 'Unknown job'
triggerJobCall(name) ==
  /\ name \in SchedulerJobs => call.handler[name] = "idle"
  /\ call' = IF name \in SchedulerJobs
             THEN [call EXCEPT !.handler[name] = "trigger",
                               !.last = Last("trigger", name, "pending", "none")]
             ELSE [call EXCEPT
                     !.last = Last("trigger", name, "threw", "none")]
  /\ UNCHANGED Pipeline

\* scheduler.js 175-465: the handler of job ends.  Called from a cron task
\* its promise goes to node-cron; called from triggerJob, triggerJob returns
\* what the handler resolved with or throws what it rejected with.
handlerSettles(job) ==
  /\ call.handler[job] # "idle"
  /\ \E work \in WorkOutcomes(job) :
       call' = [call EXCEPT
                  !.handler[job] = "idle",
                  !.last =
                    IF call.handler[job] = "trigger"
                    THEN Last("trigger", job,
                              IF HandlerPromise(job, work) = "resolved"
                              THEN "returned" ELSE "threw", work)
                    ELSE Last("handler", job, HandlerPromise(job, work), work)]
  /\ UNCHANGED Pipeline

NextScheduler ==
  \/ startScheduledJobs
  \/ stopScheduledJobs
  \/ getSchedulerStatus
  \/ \E job \in SchedulerJobs : cronTick(job)
  \/ \E name \in TriggerNames : triggerJobCall(name)
  \/ \E job \in SchedulerJobs : handlerSettles(job)

SpecScheduler == InitScheduler /\ [][NextScheduler]_vars

(* ---- helpers of the scheduler claims ---- *)
\* a step of the scheduler's interface: no handler starts or ends in it
ApiStep(op) ==
  /\ call' # call
  /\ call'.last.op = op
  /\ call'.handler = call.handler

Registration == << call.isRunning, call.jobs, call.tasks >>

SettleStep(job) ==
  call.handler[job] # "idle" /\ call'.handler[job] = "idle"

(* C26: start registers and activates every enabled job exactly once, and a
   second start while running raises no error, registers nothing more and
   leaves the job set and the running flag as they are. *)
C26_StartIdempotent ==
  [][ ApiStep("start") =>
        IF call.isRunning
        THEN /\ Registration' = Registration
             /\ call'.last.outcome = "warned"
        ELSE /\ call'.isRunning
             /\ call'.jobs = SchedulerJobs \ (IF call.dailyEnabled THEN {}
                                              ELSE {"daily_content"})
             /\ \A j \in SchedulerJobs :
                  call'.tasks[j] = IF j \in call'.jobs THEN 1 ELSE 0
             /\ call'.last.outcome = "started" ]_vars

C26_Witness ==
  /\ call.last.op = "start" /\ call.last.outcome = "warned"
  /\ call.isRunning
  /\ ~call.dailyEnabled
  /\ call.jobs = SchedulerJobs \ {"daily_content"}

(* C27: stop deactivates every registered job, empties the job set and
   clears the running flag; a stop while not running raises no error and
   changes nothing; status reports the running flag and the registered jobs
   as they are, so after a start that follows a stop it reports the enabled
   jobs again. *)
C27_StopClearsAndIdempotent ==
  [][ /\ ApiStep("stop") =>
           IF call.isRunning
           THEN /\ ~call'.isRunning
                /\ call'.jobs = {}
                /\ \A j \in SchedulerJobs : call'.tasks[j] = 0
                /\ call'.last.outcome = "stopped"
           ELSE /\ Registration' = Registration
                /\ call'.last.outcome = "warned"
      /\ ApiStep("status") =>
           /\ Registration' = Registration
           /\ call'.last.is_running = call.isRunning
           /\ call'.last.active_jobs = call.jobs
           /\ (call.isRunning =>
                 call'.last.active_jobs = EnabledJobs(call.dailyEnabled)) ]_vars

C27_Witness ==
  /\ call.last.op = "stop" /\ call.last.outcome = "stopped"
  /\ ~call.isRunning /\ call.jobs = {}
  /\ call.handler["health_check"] = "cron"

(* C28 (as stated): trigger returns the handler's result, and when the
   handler's work fails trigger throws that error to its caller; an unknown
   name raises an error without running a handler. *)
C28_TriggerThrowsHandlerError ==
  [][ /\ \A job \in SchedulerJobs :
           (SettleStep(job) /\ call.handler[job] = "trigger"
            /\ call'.last.work = "failed")
             => call'.last.outcome = "threw"
      /\ (ApiStep("trigger") /\ call'.last.job \notin SchedulerJobs)
           => call'.last.outcome = "threw" ]_vars

(* C28 (amended): trigger runs the handler of a known job at once and
   returns what it resolves with, which is undefined whether the handler's
   work succeeded, was skipped or failed: the failure is caught inside the
   handler and never reaches the caller of trigger.  An unknown name raises
   an error without running a handler. *)
C28_TriggerNeverThrowsForKnownJob ==
  [][ /\ \A job \in SchedulerJobs :
           (SettleStep(job) /\ call.handler[job] = "trigger")
             => /\ call'.last.op = "trigger" /\ call'.last.job = job
                /\ call'.last.outcome = "returned"
      /\ ApiStep("trigger") =>
           IF call'.last.job \in SchedulerJobs
           THEN /\ call'.last.outcome = "pending"
                /\ call'.handler = call.handler
           ELSE /\ call'.last.outcome = "threw"
                /\ call'.handler = call.handler
      /\ \A job \in SchedulerJobs :
           (call.handler[job] = "idle" /\ call'.handler[job] = "trigger")
             => call'.last = Last("trigger", job, "pending", "none") ]_vars

C28_Witness ==
  /\ call.last.op = "trigger" /\ call.last.job = "daily_content"
  /\ call.last.work = "failed" /\ call.last.outcome = "returned"
  /\ ~call.isRunning

(* C29: whatever fails inside a job handler, the handler's promise resolves,
   the scheduler stays running, and every job, the failing one included,
   stays registered with its cron task active, so that it runs again at its
   next tick. *)
C29_JobFailuresIsolated ==
  [][ \A job \in SchedulerJobs :
        SettleStep(job) =>
          /\ call'.last.outcome \in {"resolved", "returned"}
          /\ Registration' = Registration
          /\ (call.isRunning =>
                \A j \in EnabledJobs(call.dailyEnabled) :
                  /\ j \in call'.jobs
                  /\ call'.tasks[j] = 1) ]_vars

C29_Witness ==
  /\ call.last.op = "handler" /\ call.last.job = "research_updates"
  /\ call.last.work = "failed" /\ call.last.outcome = "resolved"
  /\ call.isRunning /\ "research_updates" \in call.jobs
  /\ call.handler["research_updates"] = "cron"

(* ================= stored research and topic selection =============== *)
(* Table research_data, filled by handleResearchUpdates and purged by       *)
(* handleKnowledgeMaintenance, next to one generation run at a time.  The   *)
(* clock counts periods of twelve hours.                                    *)

\* last period of the clock
MaxClock == 3

\* most rows table research_data takes in the model
MaxRecords == 2

\* scheduler.js 244: expires_at is twelve hours, one period, after the insert
ResearchTtl == 1

\* most results conductResearch pushes in the model (of its four queries)
MaxLiveResults == 2

\* generator.js 229-232: the results conductResearch pushes come from the
\* queries it has just made; they carry no expires_at
LiveResults(n, now) ==
  { [origin |-> "conductResearch", id |-> k, fetched_at |-> now] : k \in 1..n }

\* what rows of research_data would look like as candidates
StoredResults(rows) ==
  { [origin |-> "research_data", id |-> row.id, fetched_at |-> row.created_at] :
      row \in rows }

\* selectOptimalTopic reading the stored research too, without a filter
CandidatePoolWithStored(researchData, rows) ==
  researchData \cup StoredResults(rows)

\* generator.js 269-280: urgent_topics and relevantResearch are both taken
\* from the researchData argument, the return value of this run's
\* conductResearch (generator.js 69-72); table research_data is not read
CandidatePool(researchData, rows) == researchData

IdleSelection(now, rows) ==
  [pc |-> "idle", now |-> now, research_data |-> rows, researchData |-> {},
   candidates |-> {}]

InitExpiry ==
  /\ PipelineAsConstructed
  /\ call = IdleSelection(0, {})

\* time passes
clockTick ==
  /\ call.now < MaxClock
  /\ call' = [call EXCEPT !.now = call.now + 1]
  /\ UNCHANGED Pipeline

\* scheduler.js 236-245: handleResearchUpdates stores what it found, to
\* expire twelve hours later
storeResearch ==
  /\ Cardinality(call.research_data) < MaxRecords
  /\ LET id == CHOOSE k \in 1..MaxRecords :
                  \A row \in call.research_data : row.id # k
     IN  call' = [call EXCEPT
                    !.research_data = @ \cup
                      { [id |-> id, created_at |-> call.now,
                         expires_at |-> call.now + ResearchTtl] }]
  /\ UNCHANGED Pipeline

\* scheduler.js 322-327: DELETE FROM research_data WHERE expires_at < NOW()
purgeExpiredResearch ==
  /\ \E row \in call.research_data : row.expires_at < call.now
  /\ call' = [call EXCEPT
                !.research_data = { row \in @ : ~(row.expires_at < call.now) }]
  /\ UNCHANGED Pipeline

\* generator.js 69-72 and 210-253: conductResearch of a run returns
conductResearchReturns ==
  /\ call.pc = "idle"
  /\ \E n \in 0..MaxLiveResults :
       call' = [call EXCEPT !.pc = "conductResearch_returned",
                            !.researchData = LiveResults(n, call.now),
                            !.candidates = {}]
  /\ UNCHANGED Pipeline

\* generator.js 75 and 269-280: selectOptimalTopic looks at its candidates
selectOptimalTopicCandidates ==
  /\ call.pc = "conductResearch_returned"
  /\ call' = [call EXCEPT
                !.pc = "selectOptimalTopic",
                !.candidates = CandidatePool(call.researchData,
                                             call.research_data)]
  /\ UNCHANGED Pipeline

\* the run goes on and ends; its research is dropped with it
selectionRunEnds ==
  /\ call.pc = "selectOptimalTopic"
  /\ call' = IdleSelection(call.now, call.research_data)
  /\ UNCHANGED Pipeline

NextExpiry ==
  \/ clockTick
  \/ storeResearch
  \/ purgeExpiredResearch
  \/ conductResearchReturns
  \/ selectOptimalTopicCandidates
  \/ selectionRunEnds

SpecExpiry == InitExpiry /\ [][NextExpiry]_vars

(* ---- helpers of the expiry claim ---- *)
ExpiredRows == { row \in call.research_data : row.expires_at < call.now }

(* C30: no candidate that selectOptimalTopic considers comes from a research
   record that is past its expires_at at selection time: every candidate is
   a result this run's own research has just fetched. *)
C30_NoExpiredCandidate ==
  call.pc = "selectOptimalTopic" =>
    \A c \in call.candidates :
      /\ ~(\E row \in ExpiredRows :
             c.origin = "research_data" /\ c.id = row.id)
      /\ c.origin = "conductResearch"
      /\ c \in call.researchData

C30_Witness ==
  /\ call.pc = "selectOptimalTopic"
  /\ Cardinality(call.candidates) = 2
  /\ ExpiredRows # {}

(* ===================== the order of the stages ======================= *)

\* The states of a run in the order generateDailyContent goes through them
\* (generator.js 72-113).
StageOrder ==
  << "PLANNING", "RESEARCHING", "TOPIC_SELECTION", "KNOWLEDGE_GATHERING",
     "GENERATING", "QUALITY_GATE", "AUDIO", "SOCIAL_ADAPTATION", "PERSISTED",
     "AUTO_PUBLISH" >>

\* The stage whose await a run is suspended on.
StageOf(pc) ==
  CASE pc = "planDailyContent"         -> "PLANNING"
    [] pc = "conductResearch"          -> "RESEARCHING"
    [] pc = "selectOptimalTopic"       -> "TOPIC_SELECTION"
    [] pc = "gatherKnowledgeContext"   -> "KNOWLEDGE_GATHERING"
    [] pc = "generateHVACScript"       -> "GENERATING"
    [] pc = "evaluateConsistency"      -> "GENERATING"
    [] pc = "updateConsistencyMetrics" -> "GENERATING"
    [] pc = "performQualityCheck"      -> "QUALITY_GATE"
    [] pc = "generateVoiceAudio"       -> "AUDIO"
    [] pc = "generateSocialContent"    -> "SOCIAL_ADAPTATION"
    [] pc = "saveGeneratedContent"     -> "PERSISTED"
    [] pc = "autoPublishContent"       -> "AUTO_PUBLISH"
    [] OTHER                           -> "none"

StagePcs == BetweenCheckAndPersist \cup {"autoPublishContent"}

Rank(stage) == CHOOSE k \in DOMAIN StageOrder : StageOrder[k] = stage

\* The three awaits of GENERATING in the order they are issued.
GeneratingOrder ==
  << "generateHVACScript", "evaluateConsistency", "updateConsistencyMetrics" >>

SubRank(pc) == CHOOSE k \in DOMAIN GeneratingOrder : GeneratingOrder[k] = pc

\* A step of a run from the await of stage s to the await of stage t follows
\* the state list: t is the stage after s; or both are GENERATING and the
\* await is a later one; or t is the stage after TOPIC_SELECTION resp. AUDIO
\* and that stage was passed without an await (the topic was settled from the
\* urgent topics or the fallback table; the caller disabled the audio).
FollowsStageOrder(rr, pc2) ==
  LET s == StageOf(rr.pc)
      t == StageOf(pc2)
  IN  \/ Rank(t) = Rank(s) + 1 /\ (t = "AUDIO" => WantsAudio(rr.job))
      \/ s = "GENERATING" /\ t = "GENERATING" /\ SubRank(pc2) > SubRank(rr.pc)
      \/ s = "RESEARCHING" /\ t = "KNOWLEDGE_GATHERING"
      \/ s = "QUALITY_GATE" /\ t = "SOCIAL_ADAPTATION" /\ ~WantsAudio(rr.job)

(* C31: within one run the stages execute strictly in the order PLANNING,
   RESEARCHING, TOPIC_SELECTION, KNOWLEDGE_GATHERING, GENERATING,
   QUALITY_GATE, AUDIO (unless the caller disabled it), SOCIAL_ADAPTATION,
   PERSISTED, then AUTO_PUBLISH or the end.  A run is suspended on one await
   at a time; the step that ends that await either ends the run (by a
   rejection from any stage, by the structured success only after PERSISTED
   or AUTO_PUBLISH) or issues the await of the following stage, never the
   same or an earlier one and never one further on; the first stage after
   the quota check is PLANNING. *)
C31_StagesInOrder ==
  [][\A r \in Runs :
       /\ (Steps(r) /\ run[r].pc \in StagePcs) =>
            \/ /\ run'[r].pc = "done"
               /\ \/ run'[r].outcome.state = "rejected"
                  \/ /\ run'[r].outcome.success
                     /\ StageOf(run[r].pc) \in {"PERSISTED", "AUTO_PUBLISH"}
            \/ /\ run'[r].pc \in StagePcs
               /\ FollowsStageOrder(run[r], run'[r].pc)
       /\ (Steps(r) /\ run[r].pc \notin StagePcs /\ run'[r].pc \in StagePcs) =>
            run[r].pc = "checkDailyLimits" /\ run'[r].pc = "planDailyContent"
    ]_vars

\* A run started by the research job has gone through all stages and is
\* publishing what it persisted, while the other run is in PLANNING.
C31_Witness ==
  \E r, o \in Runs :
    /\ run[r].pc = "autoPublishContent"
    /\ run[r].job = "research_updates"
    /\ run[r].savedContent > 0
    /\ run[o].pc = "planDailyContent"

(* ---- no retries (C32) ---- *)

\* How often researchTopic was called for query q.
TimesIssued(q) == Len(SelectSeq(call.issued, LAMBDA k : k = q))

(* C32: no call is retried.  In one run each research query is issued at most
   once and in the order of the query list, the generative topic choice is
   issued at most once, and a failed call is replaced by its fallback value
   and never issued again: a failed query leaves no result and the loop goes
   on with the next query, a failed topic choice yields the first angle of
   the first relevant result. *)
C32_NoCallReissued ==
  /\ \A q \in Queries : TimesIssued(q) <= 1
  /\ \A k \in DOMAIN call.issued : call.issued[k] = k
  /\ call.selections <= 1
  /\ \A q \in Queries :
       (Failed(q) /\ (q < call.i \/ ResearchReturned)) =>
          /\ TimesIssued(q) = 1
          /\ \A k \in DOMAIN call.researchResults :
               call.researchResults[k].query # q
  /\ call.via = "first_angle" =>
       /\ call.selections = 1
       /\ call.topic = FirstAngle(RelevantResearch(call.researchData.results)[1])

\* Queries 1 and 3 failed, all four were issued once, and the failed topic
\* choice was replaced by the first angle of query 2.
C32_Witness ==
  /\ call.pc = "topicSelected" /\ call.via = "first_angle"
  /\ Failed(1) /\ Failed(3) /\ ~Failed(2) /\ ~Failed(4)
  /\ call.issued = << 1, 2, 3, 4 >>
  /\ call.topic = "q2 angle 1"

(* C33 (as stated): research queries are never issued back to back: whenever
   the next research query is issued, the fixed delay has elapsed since the
   previous query answered, whether that query succeeded or failed. *)
C33_DelayBetweenResearchCalls ==
  [][(call.pc = "researchTopic" /\ call'.pc = "researchTopic")
       => call'.i = call.i]_vars

(* C34 (as stated): after each evaluateConsistency call returns a value s,
   the defaults included, the profile's personality_consistency_score equals
   s, in the stored profile and in the engine's in-memory copy. *)
C34_EveryEvaluationUpdatesProfile ==
  call.pc = "evaluated" =>
    /\ call.stored_score = call.result
    /\ call.profile_score = call.result

(* C34 (amended): when evaluateConsistency returns the overall score of a
   parsed evaluation and the profile update succeeded, the stored and the
   in-memory personality_consistency_score both equal the returned value;
   when it returns a default (75 without JSON, 70 after a failure) or the
   profile update failed, both keep the value they had before the call. *)
C34_ParsedAndStoredUpdatesProfile ==
  call.pc = "evaluated" =>
    IF call.resp.kind = "json" /\ call.stored = "yes"
    THEN /\ call.stored_score = call.result
         /\ call.profile_score = call.result
    ELSE /\ call.stored_score = call.before
         /\ call.profile_score = call.before

\* A parsed score of 94 was stored over 88, and elsewhere a default left 88.
C34_Witness ==
  /\ call.pc = "evaluated"
  /\ call.resp.kind = "json" /\ call.stored = "yes"
  /\ call.before = Number(88)
  /\ call.result = Number(94)
  /\ call.profile_score = Number(94)

(* ================= knowledge maintenance in detail =================== *)
(* One scheduler whose knowledge_maintenance job is registered: the weekly  *)
(* pass of handleKnowledgeMaintenance await by await, over table            *)
(* research_data and the clock of the expiry specification.                 *)

\* most unverified entries a pass re-verifies in the model (the query has
\* LIMIT 10)
MaxUnverified == 2

IdleMaintenance(now, rows) ==
  [pc |-> "idle", now |-> now, research_data |-> rows, entries |-> 0,
   failed |-> 0, deletedCount |-> 0]

InitMaintenance ==
  /\ PipelineAsConstructed
  /\ call = IdleMaintenance(0, {})

\* scheduler.js 106-115 and 276-289: the cron task of knowledge_maintenance
\* fires; the handler issues the query for the unverified entries
knowledgeMaintenanceTick ==
  /\ call.pc = "idle"
  /\ call' = [call EXCEPT !.pc = "unverifiedEntries", !.entries = 0,
                          !.failed = 0, !.deletedCount = 0]
  /\ UNCHANGED Pipeline

\* scheduler.js 291 and 322: the loop takes the next entry, or the DELETE is
\* issued
AfterEntry(c) ==
  IF c.entries > 0
  THEN [c EXCEPT !.pc = "verifyKnowledgeAccuracy"]
  ELSE [c EXCEPT !.pc = "deleteExpired"]

\* scheduler.js 283-291: the query answered with its rows
unverifiedEntriesFound ==
  /\ call.pc = "unverifiedEntries"
  /\ \E n \in 0..MaxUnverified : call' = AfterEntry([call EXCEPT !.entries = n])
  /\ UNCHANGED Pipeline

\* scheduler.js 344-347: the query threw; the outer catch logs and the pass
\* is over
unverifiedEntriesThrows ==
  /\ call.pc = "unverifiedEntries"
  /\ call' = IdleMaintenance(call.now, call.research_data)
  /\ UNCHANGED Pipeline

\* scheduler.js 293-297 and 311-318: the verification of an entry answered
\* and its row is being updated, or it threw and the inner catch records the
\* failure
entryVerificationAnswers ==
  /\ call.pc = "verifyKnowledgeAccuracy"
  /\ \/ call' = [call EXCEPT !.pc = "updateEntry"]
     \/ call' = AfterEntry([call EXCEPT !.entries = @ - 1, !.failed = @ + 1])
  /\ UNCHANGED Pipeline

\* A failed update of an entry ends the pass.
entryUpdateAnswersAborts ==
  /\ call.pc = "updateEntry"
  /\ \/ call' = AfterEntry([call EXCEPT !.entries = @ - 1])
     \/ call' = IdleMaintenance(call.now, call.research_data)
  /\ UNCHANGED Pipeline

\* scheduler.js 299-318: the update of the entry answered, or it threw and
\* the inner catch records the failure; the loop goes on
entryUpdateAnswers ==
  /\ call.pc = "updateEntry"
  /\ \/ call' = AfterEntry([call EXCEPT !.entries = @ - 1])
     \/ call' = AfterEntry([call EXCEPT !.entries = @ - 1, !.failed = @ + 1])
  /\ UNCHANGED Pipeline

\* scheduler.js 322-333: DELETE FROM research_data WHERE expires_at < NOW()
\* RETURNING id answered; the statistics are asked for
expiredResearchDeleted ==
  /\ call.pc = "deleteExpired"
  /\ LET expired == { row \in call.research_data : row.expires_at < call.now }
     IN  call' = [call EXCEPT !.pc = "getKnowledgeStats",
                              !.research_data = @ \ expired,
                              !.deletedCount = Cardinality(expired)]
  /\ UNCHANGED Pipeline

\* scheduler.js 344-347: the DELETE threw; the outer catch logs
deleteExpiredThrows ==
  /\ call.pc = "deleteExpired"
  /\ call' = IdleMaintenance(call.now, call.research_data)
  /\ UNCHANGED Pipeline

\* scheduler.js 336-347: the statistics answered or threw, the pass is logged
maintenancePassEnds ==
  /\ call.pc = "getKnowledgeStats"
  /\ call' = IdleMaintenance(call.now, call.research_data)
  /\ UNCHANGED Pipeline

NextMaintenance ==
  \/ clockTick
  \/ storeResearch
  \/ knowledgeMaintenanceTick
  \/ unverifiedEntriesFound
  \/ unverifiedEntriesThrows
  \/ entryVerificationAnswers
  \/ entryUpdateAnswers
  \/ expiredResearchDeleted
  \/ deleteExpiredThrows
  \/ maintenancePassEnds

SpecMaintenance == InitMaintenance /\ [][NextMaintenance]_vars

\* The cron task keeps firing while it is registered and every settled await
\* resumes its handler (weak fairness of the handler's steps); a store that
\* is asked again and again answers the query and the DELETE at some time
\* (strong fairness of the two answers).
SpecMaintenanceFair ==
  /\ SpecMaintenance
  /\ WF_vars(knowledgeMaintenanceTick)
  /\ WF_vars(entryVerificationAnswers)
  /\ WF_vars(entryUpdateAnswers)
  /\ WF_vars(maintenancePassEnds)
  /\ SF_vars(unverifiedEntriesFound)
  /\ SF_vars(expiredResearchDeleted)

(* ---- helpers of the purge claim ---- *)
\* every row table research_data can hold in the model
ResearchRows ==
  { [id |-> k, created_at |-> t, expires_at |-> t + ResearchTtl] :
      k \in 1..MaxRecords, t \in 0..MaxClock }

Reverifying == call.pc \in {"verifyKnowledgeAccuracy", "updateEntry"}

(* C35: under fair scheduling of the knowledge-maintenance job every research
   record whose expires_at has passed is eventually removed from the store,
   and a pass in which the re-verification of an entry failed still goes on
   to issue the DELETE of the expired records. *)
C35_ExpiredEventuallyPurged ==
  /\ \A row \in ResearchRows :
       (row \in call.research_data /\ row.expires_at < call.now)
         ~> (row \notin call.research_data)
  /\ (call.failed > 0 /\ Reverifying)
       ~> (call.failed > 0 /\ call.pc = "deleteExpired")

\* Both re-verifications of a pass failed and its DELETE removed two rows.
C35_Witness ==
  /\ call.pc = "getKnowledgeStats"
  /\ call.failed = MaxUnverified
  /\ call.deletedCount = 2
  /\ call.research_data = {}

(* ================== rankSearchResults in detail ====================== *)
(* One call of rankSearchResults: the rows of the search and the answer of  *)
(* the ranking call are the inputs.                                         *)

\* most rows of a search in the ranking model
MaxResults == 3

\* most elements of the ranking array in the model
MaxRanking == 3

\* a row of hvac_knowledge, by its id
Row(i) == [id |-> i]

\* the rows 1..n in the order the query returned them
Rows(n) == [i \in 1..n |-> Row(i)]

NaN == [type |-> "NaN", value |-> 0]

\* knowledge-base.js 483, 487: parseInt(index) of an element of the ranking
\* array: an integer (an entry number, zero, a number past the end) or NaN
\* (an element that is not numeric)
ParsedIndices(n) == { Number(k) : k \in 0..(n + 1) } \cup { NaN }

SeqsUpTo(S, len) == UNION { [1..k -> S] : k \in 0..len }

\* knowledge-base.js 473-480: the ranking call throws, its text holds no
\* [...], the match does not parse, or it parses to an array
RankingResponses(n) ==
  { [kind |-> "fail", ranking |-> << >>],
    [kind |-> "nomatch", ranking |-> << >>],
    [kind |-> "badjson", ranking |-> << >>] }
  \cup { [kind |-> "array", ranking |-> r] :
           r \in SeqsUpTo(ParsedIndices(n), MaxRanking) }

\* knowledge-base.js 483: results[parseInt(index) - 1], undefined when the
\* index is NaN or outside the array
PicksRow(results, index) ==
  index.type = "number" /\ index.value \in DOMAIN results

RECURSIVE RankedResults(_, _)
\* knowledge-base.js 482-484: map to the rows, filter the undefined ones
RankedResults(results, ranking) ==
  IF ranking = << >> THEN << >>
  ELSE (IF PicksRow(results, Head(ranking))
        THEN << results[Head(ranking).value] >> ELSE << >>)
       \o RankedResults(results, Tail(ranking))

RECURSIVE MissedFrom(_, _, _)
\* knowledge-base.js 487-488: the rows whose position no element of the
\* ranking names, in their original order
MissedFrom(results, ranking, i) ==
  IF i > Len(results) THEN << >>
  ELSE (IF \E k \in DOMAIN ranking :
             ranking[k].type = "number" /\ ranking[k].value = i
        THEN << >> ELSE << results[i] >>)
       \o MissedFrom(results, ranking, i + 1)

\* knowledge-base.js 446-495: what rankSearchResults resolves with
rankSearchResults(results, response) ==
  IF response.kind = "array"
  THEN RankedResults(results, response.ranking)
       \o MissedFrom(results, response.ranking, 1)
  ELSE results

InitRanking ==
  /\ PipelineAsConstructed
  /\ \E n \in 0..MaxResults :
       call = [pc |-> "rankSearchResults", results |-> Rows(n),
               response |-> [kind |-> "none", ranking |-> << >>],
               returned |-> << >>, raised |-> FALSE]

\* knowledge-base.js 447-476: no rows are returned at once; otherwise the
\* prompt is built and the ranking is asked for
rankSearchResultsCall ==
  /\ call.pc = "rankSearchResults"
  /\ call' = IF Len(call.results) = 0
             THEN [call EXCEPT !.pc = "returned", !.returned = call.results]
             ELSE [call EXCEPT !.pc = "generateContent"]
  /\ UNCHANGED Pipeline

\* knowledge-base.js 473-495: the ranking call answered or threw
rankingAnswers ==
  /\ call.pc = "generateContent"
  /\ \E response \in RankingResponses(Len(call.results)) :
       call' = [call EXCEPT
                  !.pc = "returned", !.response = response,
                  !.returned = rankSearchResults(call.results, response)]
  /\ UNCHANGED Pipeline

NextRanking ==
  \/ rankSearchResultsCall
  \/ rankingAnswers

SpecRanking == InitRanking /\ [][NextRanking]_vars

(* ---- helpers of the ranking claim ---- *)
Occurrences(seq, x) == Cardinality({ k \in DOMAIN seq : seq[k] = x })

(* C40 (as stated): re-ranking never fails the caller and never loses or
   duplicates entries: for every ranking response rankSearchResults returns
   each input entry exactly once, and on a ranking failure the input order
   is returned unchanged. *)
C40_EachEntryExactlyOnce ==
  /\ ~call.raised
  /\ call.pc = "returned" =>
       /\ \A i \in DOMAIN call.results :
            Occurrences(call.returned, call.results[i]) = 1
       /\ Len(call.returned) = Len(call.results)
       /\ call.response.kind # "array" => call.returned = call.results

(* ================ getKnowledgeForContent in detail =================== *)
(* One call of getKnowledgeForContent: the rows its three searches return   *)
(* and the answers of their ranking calls are the inputs.                   *)

\* knowledge-base.js 512, 522, 531: the LIMIT of the three searches
DirectLimit == 10

SafetyLimit == 5

CanadianLimit == 5

\* knowledge-base.js 542-545: the ends of the four slices
PrimaryEnd == 5

SafetyEnd == 3

CanadianEnd == 3

SupplementaryEnd == 10

\* the content types of the two branches at knowledge-base.js 517
KnowledgeContentTypes == {"safety", "technical"}

\* the rows with ids first, first + 1, ..: what a query returns before the
\* ranking
RowsFrom(first, n) == [i \in 1..n |-> Row(first + i - 1)]

\* The ids at which the rows of the safety and of the Canadian search start:
\* among the direct rows, overlapping their end, or apart from them.
SafetyFirstIds == {1, 4, 9, 21}

CanadianFirstIds == {1, 8, 21}

\* Answers of the ranking call of a search with n rows: a failure, the first
\* entry named twice, the last entry named first.
RankingSamples(n) ==
  { [kind |-> "fail", ranking |-> << >>],
    [kind |-> "array", ranking |-> << Number(1), Number(1) >>],
    [kind |-> "array", ranking |-> << Number(n) >>] }

\* knowledge-base.js 425-432: the rows of a search as searchKnowledge returns
\* them, ranked because the topic is a non-empty query
SearchResults(first, limit) ==
  UNION { { rankSearchResults(RowsFrom(first, n), response) :
              response \in RankingSamples(n) } : n \in 0..limit }

\* Array.prototype.slice(from, to) for 0 <= from <= to
Slice(seq, from, to) ==
  IF Len(seq) <= from THEN << >>
  ELSE SubSeq(seq, from + 1, IF Len(seq) < to THEN Len(seq) ELSE to)

RECURSIVE UniqueFrom(_, _)
\* knowledge-base.js 536-538: the rows whose id did not occur before
UniqueFrom(all, i) ==
  IF i > Len(all) THEN << >>
  ELSE (IF \E k \in 1..(i - 1) : all[k].id = all[i].id
        THEN << >> ELSE << all[i] >>)
       \o UniqueFrom(all, i + 1)

\* The four sets cut from the combined list as it is, without the filter.
CategorizedKnowledgeUnfiltered(directResults, safetyResults, canadianResults) ==
  LET allResults == directResults \o safetyResults \o canadianResults
  IN  [primary |-> Slice(allResults, 0, PrimaryEnd),
       safety |-> Slice(safetyResults, 0, SafetyEnd),
       canadian_specific |-> Slice(canadianResults, 0, CanadianEnd),
       supplementary |-> Slice(allResults, PrimaryEnd, SupplementaryEnd)]

\* knowledge-base.js 535-546: combine, deduplicate, categorize
CategorizedKnowledge(directResults, safetyResults, canadianResults) ==
  LET allResults == directResults \o safetyResults \o canadianResults
      uniqueResults == UniqueFrom(allResults, 1)
  IN  [primary |-> Slice(uniqueResults, 0, PrimaryEnd),
       safety |-> Slice(safetyResults, 0, SafetyEnd),
       canadian_specific |-> Slice(canadianResults, 0, CanadianEnd),
       supplementary |-> Slice(uniqueResults, PrimaryEnd, SupplementaryEnd)]

NoKnowledge ==
  [primary |-> << >>, safety |-> << >>, canadian_specific |-> << >>,
   supplementary |-> << >>]

InitKnowledgeForContent ==
  /\ PipelineAsConstructed
  /\ \E type \in KnowledgeContentTypes :
       call = [pc |-> "directResults", contentType |-> type,
               directResults |-> << >>, safetyResults |-> << >>,
               canadianResults |-> << >>, knowledge |-> NoKnowledge]

\* knowledge-base.js 557-560: a search threw; the catch logs and rethrows
SearchThrows(c) == [c EXCEPT !.pc = "raised"]

\* knowledge-base.js 508-524: the direct search answered; the safety search
\* is issued unless the content is safety content, then the Canadian one
directSearchAnswers ==
  /\ call.pc = "directResults"
  /\ \/ call' = SearchThrows(call)
     \/ \E rows \in SearchResults(1, DirectLimit) :
          call' = [call EXCEPT
                     !.directResults = rows,
                     !.pc = IF call.contentType # "safety"
                            THEN "safetyResults" ELSE "canadianResults"]
  /\ UNCHANGED Pipeline

\* knowledge-base.js 518-532: the safety search answered
safetySearchAnswers ==
  /\ call.pc = "safetyResults"
  /\ \/ call' = SearchThrows(call)
     \/ \E first \in SafetyFirstIds :
          \E rows \in SearchResults(first, SafetyLimit) :
            call' = [call EXCEPT !.safetyResults = rows,
                                 !.pc = "canadianResults"]
  /\ UNCHANGED Pipeline

\* knowledge-base.js 527-555: the Canadian search answered; the results are
\* combined and returned
canadianSearchAnswers ==
  /\ call.pc = "canadianResults"
  /\ \/ call' = SearchThrows(call)
     \/ \E first \in CanadianFirstIds :
          \E rows \in SearchResults(first, CanadianLimit) :
            call' = [call EXCEPT
                       !.canadianResults = rows,
                       !.pc = "returned",
                       !.knowledge = CategorizedKnowledge(
                                        call.directResults,
                                        call.safetyResults, rows)]
  /\ UNCHANGED Pipeline

NextKnowledgeForContent ==
  \/ directSearchAnswers
  \/ safetySearchAnswers
  \/ canadianSearchAnswers

SpecKnowledgeForContent ==
  InitKnowledgeForContent /\ [][NextKnowledgeForContent]_vars

(* ---- helpers of the knowledge-set claim ---- *)
IdsOf(seq) == { seq[k].id : k \in DOMAIN seq }

NoIdTwice(seq) ==
  \A j, k \in DOMAIN seq : seq[j].id = seq[k].id => j = k

(* C36 (as stated): the four sets hold at most 10 (primary), 5 (safety),
   5 (region-specific) and 10 (supplementary) entries and are deduplicated
   by id: no id occurs twice within a set and none occurs in more than one
   of the four sets. *)
C36_FourSetsDeduplicated ==
  call.pc = "returned" =>
    LET k == call.knowledge IN
      /\ Len(k.primary) <= 10 /\ Len(k.safety) <= 5
      /\ Len(k.canadian_specific) <= 5 /\ Len(k.supplementary) <= 10
      /\ NoIdTwice(k.primary) /\ NoIdTwice(k.safety)
      /\ NoIdTwice(k.canadian_specific) /\ NoIdTwice(k.supplementary)
      /\ IdsOf(k.primary) \cap IdsOf(k.safety) = {}
      /\ IdsOf(k.primary) \cap IdsOf(k.canadian_specific) = {}
      /\ IdsOf(k.primary) \cap IdsOf(k.supplementary) = {}
      /\ IdsOf(k.safety) \cap IdsOf(k.canadian_specific) = {}
      /\ IdsOf(k.safety) \cap IdsOf(k.supplementary) = {}
      /\ IdsOf(k.canadian_specific) \cap IdsOf(k.supplementary) = {}

(* C36 (amended): the four sets hold at most 5 (primary), 3 (safety),
   3 (region-specific) and 5 (supplementary) entries.  Primary and
   supplementary are the first five and the next five entries of the
   combined results deduplicated by id: no id occurs twice within them or in
   both.  The safety and the region-specific set are the first three rows of
   their own searches as returned, duplicates included, whatever ids the
   other sets hold. *)
C36_PrimaryAndSupplementaryDeduplicated ==
  call.pc = "returned" =>
    LET k == call.knowledge IN
      /\ Len(k.primary) <= 5 /\ Len(k.safety) <= 3
      /\ Len(k.canadian_specific) <= 3 /\ Len(k.supplementary) <= 5
      /\ NoIdTwice(k.primary \o k.supplementary)
      /\ k.supplementary # << >> => Len(k.primary) = 5
      /\ IdsOf(k.primary) \cup IdsOf(k.supplementary) \subseteq
           IdsOf(call.directResults) \cup IdsOf(call.safetyResults)
             \cup IdsOf(call.canadianResults)
      /\ k.safety = Slice(call.safetyResults, 0, 3)
      /\ k.canadian_specific = Slice(call.canadianResults, 0, 3)

\* Five primary and five supplementary entries, the safety set repeating an
\* entry of the primary set.
C36_Witness ==
  /\ call.pc = "returned"
  /\ Len(call.knowledge.primary) = 5
  /\ Len(call.knowledge.supplementary) = 5
  /\ Len(call.knowledge.safety) = 3
  /\ IdsOf(call.knowledge.safety) \cap IdsOf(call.knowledge.primary) # {}
  /\ NoIdTwice(call.knowledge.safety)

(* ================= what the persisted item records =================== *)
(* One run followed from its options to its insert: the content type of the *)
(* plan and the selected topic through scriptParams, the script result and  *)
(* contentData into the row handed to database.create.                      *)

\* schema.sql 12: the content types of content_calendar
ContentTypes ==
  {"technical", "safety", "customer_service", "industry_update", "wellness"}

\* generator.js 29-37: the types of the day-of-week table
StrategyTypes ==
  {"technical", "safety", "customer_service", "industry_update", "wellness"}

TopicSamples == {"Heat Pump Defrost Cycles", "Electrical Safety in HVAC Work"}

\* obj.key of a JavaScript object
Get(obj, key) == IF key \in DOMAIN obj THEN obj[key] ELSE "undefined"

\* a || b for strings
OrElse(a, b) == IF a \in {"undefined", ""} THEN b ELSE a

\* generator.js 185: options.force_content_type || baseStrategy.type
PlannedContentType(options, baseType) ==
  OrElse(Get(options, "force_content_type"), baseType)

\* generator.js 394-404: scriptParams
ScriptParams(topic, contentPlan) ==
  [topic |-> topic, contentType |-> contentPlan.content_type]

\* anthropic-client.js 160-169 and 232-244: the result of generateHVACScript;
\* the topic goes into the prompt, the title and the description only
ScriptResult(params) ==
  [script |-> "script text",
   content_type |-> OrElse(Get(params, "contentType"), "technical")]

\* generator.js 415-421 and 100-107: contentResult spread into contentData
ContentData(scriptResult, scriptParams, approved) ==
  [script |-> scriptResult.script,
   content_type |-> scriptResult.content_type,
   generation_params |-> scriptParams,
   qualityCheck |-> [approved |-> approved]]

\* generator.js 575-588: the row saveGeneratedContent hands to
\* database.create
ContentRow(contentData) ==
  [topic |-> Get(contentData, "topic"),
   content_type |-> OrElse(Get(contentData, "contentType"), "technical"),
   status |-> SavedStatus(contentData.qualityCheck)]

NoRow == [topic |-> "none", content_type |-> "none", status |-> "none"]

InitPersist ==
  /\ PipelineAsConstructed
  /\ \E baseType \in StrategyTypes,
        force \in ContentTypes \cup {"undefined"} :
       call = [pc |-> "planDailyContent", baseType |-> baseType,
               options |-> IF force = "undefined"
                           THEN [generate_audio |-> "true"]
                           ELSE [generate_audio |-> "true",
                                 force_content_type |-> force],
               content_type |-> "none", selectedTopic |-> "none",
               approved |-> FALSE, row |-> NoRow]

\* generator.js 174-205: the plan of the day
contentTypePlanned ==
  /\ call.pc = "planDailyContent"
  /\ call' = [call EXCEPT
                !.pc = "selectOptimalTopic",
                !.content_type = PlannedContentType(call.options, call.baseType)]
  /\ UNCHANGED Pipeline

\* generator.js 79: selectOptimalTopic returned
topicReturned ==
  /\ call.pc = "selectOptimalTopic"
  /\ \E topic \in TopicSamples :
       call' = [call EXCEPT !.pc = "performQualityCheck",
                            !.selectedTopic = topic]
  /\ UNCHANGED Pipeline

\* generator.js 85-107 and 574-588: the script is generated and reviewed and
\* the row is handed to database.create
contentRowBuilt ==
  /\ call.pc = "performQualityCheck"
  /\ \E approved \in BOOLEAN :
       LET contentPlan == [content_type |-> call.content_type]
           scriptParams == ScriptParams(call.selectedTopic, contentPlan)
           contentData == ContentData(ScriptResult(scriptParams),
                                      scriptParams, approved)
       IN  call' = [call EXCEPT !.pc = "database.create",
                                !.approved = approved,
                                !.row = ContentRow(contentData)]
  /\ UNCHANGED Pipeline

\* connection.js 134-147: the insert answered with the row, or threw
contentRowCreated ==
  /\ call.pc = "database.create"
  /\ \/ call' = [call EXCEPT !.pc = "persisted"]
     \/ call' = [call EXCEPT !.pc = "rejected", !.row = NoRow]
  /\ UNCHANGED Pipeline

NextPersist ==
  \/ contentTypePlanned
  \/ topicReturned
  \/ contentRowBuilt
  \/ contentRowCreated

SpecPersist == InitPersist /\ [][NextPersist]_vars

(* C37 (as stated): the item a run persists records what the run decided:
   its topic is defined and equals the topic topic selection returned, and
   its content type equals the content type fixed in planning (the
   day-of-week table or the caller's override), for every content type. *)
C37_PersistedRecordsDecisions ==
  call.pc = "persisted" =>
    /\ call.row.topic # "undefined"
    /\ call.row.topic = call.selectedTopic
    /\ call.row.content_type = call.content_type

(* ================= loading the profile before use ==================== *)
(* One AlexReidCharacter instance from the return of its constructor: the   *)
(* unawaited initializeCharacter and the calls of generateConsistentContent *)
(* that callers make meanwhile.                                             *)

\* most calls of generateConsistentContent followed
MaxUseCalls == 2

\* character.js 123-135: the content types generateConsistentContent knows
UseContentTypes == {"script", "community_response"}

InitLoad ==
  /\ PipelineAsConstructed
  /\ \E seeded \in SeededProfiles :
       call = [pc |-> "findMany", active_profiles |-> seeded,
               characterProfile |-> 0, unhandledRejection |-> FALSE,
               uses |-> << >>]

\* character.js 62-65 and 47: the catch of initializeCharacter logs and
\* rethrows; the constructor neither awaited the promise nor attached a
\* catch, so the rejection is unhandled
LoadRejects(c) == [c EXCEPT !.pc = "failed", !.unhandledRejection = TRUE]

\* character.js 53-67: findMany answered: the profile is loaded, or
\* createDefaultProfile issues its insert, or the failure is rethrown
initializeCharacter ==
  /\ call.pc = "findMany"
  /\ \/ /\ call.active_profiles > 0
        /\ call' = [call EXCEPT !.pc = "ready", !.characterProfile = 1]
     \/ /\ call.active_profiles = 0
        /\ call' = [call EXCEPT !.pc = "database.create"]
     \/ call' = LoadRejects(call)
  /\ UNCHANGED Pipeline

\* character.js 73-103: the insert of the default profile answered
defaultProfileCreated ==
  /\ call.pc = "database.create"
  /\ \/ call' = [call EXCEPT !.pc = "ready", !.active_profiles = @ + 1,
                             !.characterProfile = call.active_profiles + 1]
     \/ call' = LoadRejects(call)
  /\ UNCHANGED Pipeline

\* character.js 171-175: buildCharacterContext reads
\* this.characterProfile.name: a TypeError while the profile is null
buildCharacterContext(characterProfile) ==
  IF characterProfile = 0 THEN "TypeError" ELSE "context"

\* character.js 111-120 and 159-165: a caller calls generateConsistentContent;
\* buildCharacterContext runs at once on the profile as it is, and its
\* TypeError is logged and rethrown to the caller
generateConsistentContentCall ==
  /\ Len(call.uses) < MaxUseCalls
  /\ \E contentType \in UseContentTypes :
       call' = [call EXCEPT !.uses = Append(@,
                  [contentType |-> contentType,
                   loading |-> call.pc,
                   characterContext |->
                     buildCharacterContext(call.characterProfile)])]
  /\ UNCHANGED Pipeline

NextLoad ==
  \/ initializeCharacter
  \/ defaultProfileCreated
  \/ generateConsistentContentCall

SpecLoad == InitLoad /\ [][NextLoad]_vars

(* C38 (as stated): the profile is loaded before it is used: in every
   interleaving of the construction of the engine and the calls that follow
   it no call observes a null profile, and a failure of the asynchronous
   load never surfaces as an unhandled rejection. *)
C38_ProfileLoadedBeforeUse ==
  /\ \A k \in DOMAIN call.uses : call.uses[k].characterContext # "TypeError"
  /\ ~call.unhandledRejection

(* C39 (as stated): the run that the research_updates job starts for an
   urgent result takes the topic the job forces and skips its research as
   the job requests: it never issues conductResearch and never asks the
   service to choose a topic, while the quota check still applies to it: it
   plans only after checkDailyLimits counted fewer items than the limit. *)
C39_UrgentRunSkipsResearch ==
  [][\A r \in Runs :
       (run[r].job = "research_updates" /\ Steps(r)) =>
         /\ run'[r].pc \notin {"conductResearch", "selectOptimalTopic"}
         /\ run'[r].pc = "planDailyContent" =>
              /\ run[r].pc = "checkDailyLimits"
              /\ ~LimitReached(checkDailyLimits(content_calendar, day))
    ]_vars

====
